---- MODULE Spec2Model ----
(***************************************************************************)
(* The explain-plan structuring engine of the OpenSearch SQL CLI           *)
(* (opensearchsql_cli/query/explain_results.py).                           *)
(*                                                                         *)
(* Python strings are sequences of one-character strings; Python indices   *)
(* are 0-based and are kept 0-based in every returned position.  Parsed    *)
(* values (str, list, dict, True, decoded JSON) are records of one shape,  *)
(* told apart by their tag.                                                *)
(*                                                                         *)
(* content is the string a call works on (for execute_query, the response  *)
(* of the connection), target and args are its other arguments, calls are  *)
(* the calls it made to its collaborators (while a parser runs, the calls  *)
(* it has still to make), printed is what it wrote to the terminal, and    *)
(* locals are the variables of a scanner loop that is running.             *)
(***************************************************************************)
EXTENDS Integers, Sequences, FiniteSets, TLC

VARIABLES pc, fn, content, target, args, locals, ret, calls, printed

vars == <<pc, fn, content, target, args, locals, ret, calls, printed>>

(***************************************************************************)
(* Bounds of the model.                                                    *)
(***************************************************************************)
MaxLen == 4

(***************************************************************************)
(* Python string primitives.                                               *)
(***************************************************************************)
Whitespace == {" ", "\n", "\t"}

IsSpace(c) == c \in Whitespace

MinOf(S) == CHOOSE x \in S : \A y \in S : x <= y

MaxOf(S) == CHOOSE x \in S : \A y \in S : x >= y

\* str.strip()
\* Strip that leaves the whitespace at the end
Strip_Leading(s) ==
  LET idx == {i \in 1..Len(s) : ~IsSpace(s[i])}
  IN  IF idx = {} THEN <<>> ELSE SubSeq(s, MinOf(idx), Len(s))

Strip(s) ==
  LET idx == {i \in 1..Len(s) : ~IsSpace(s[i])}
  IN  IF idx = {} THEN <<>> ELSE SubSeq(s, MinOf(idx), MaxOf(idx))

\* str.startswith(c) and str.endswith(c) for a one-character c
StartsWith(s, c) == Len(s) >= 1 /\ s[1] = c

EndsWith(s, c) == Len(s) >= 1 /\ s[Len(s)] = c

\* s[a:b] with 0-based a, b already clipped to 0..len(s)
Slice(s, a, b) == SubSeq(s, a + 1, b)

\* s[1:-1]
Inner(s) == IF Len(s) >= 2 THEN SubSeq(s, 2, Len(s) - 1) ELSE <<>>

\* str.find(c) and str.rfind(c) for a one-character c: 0-based, -1 when absent
FindChar(s, c) ==
  LET idx == {i \in 1..Len(s) : s[i] = c}
  IN  IF idx = {} THEN -1 ELSE MinOf(idx) - 1

RFindChar(s, c) ==
  LET idx == {i \in 1..Len(s) : s[i] = c}
  IN  IF idx = {} THEN -1 ELSE MaxOf(idx) - 1

\* str.find("->")
FindArrow(s) ==
  LET idx == {i \in 1..(Len(s) - 1) : s[i] = "-" /\ s[i + 1] = ">"}
  IN  IF idx = {} THEN -1 ELSE MinOf(idx) - 1

HasChar(s, c) == \E i \in 1..Len(s) : s[i] = c

\* "->" in s
HasArrow(s) == FindArrow(s) >= 0

(***************************************************************************)
(* Parsed values.                                                          *)
(***************************************************************************)
Val(t, s, k, it) == [tag |-> t, s |-> s, keys |-> k, items |-> it]

Str(s) == Val("str", s, <<>>, <<>>)

PyTrue == Val("true", <<>>, <<>>, <<>>)

PyFalse == Val("false", <<>>, <<>>, <<>>)

PyNone == Val("null", <<>>, <<>>, <<>>)

Num(s) == Val("num", s, <<>>, <<>>)

List(it) == Val("list", <<>>, <<>>, it)

Dict(k, it) == Val("dict", <<>>, k, it)

EmptyDict == Dict(<<>>, <<>>)

\* d[key] = value on a Python dict: a new key goes last, an existing key keeps
\* its position and takes the new value
\* DictSet that moves a key it replaces to the end
DictSet_Reinserts(d, key, value) ==
  IF \E i \in 1..Len(d.keys) : d.keys[i] = key
  THEN LET i == CHOOSE j \in 1..Len(d.keys) : d.keys[j] = key
           without(s) == [n \in 1..(Len(s) - 1) |-> IF n < i THEN s[n] ELSE s[n + 1]]
       IN  Dict(Append(without(d.keys), key), Append(without(d.items), value))
  ELSE Dict(Append(d.keys, key), Append(d.items, value))

\* d[key] = value: a new key goes to the end, a known key keeps its place
DictSet(d, key, value) ==
  IF \E i \in 1..Len(d.keys) : d.keys[i] = key
  THEN LET i == CHOOSE j \in 1..Len(d.keys) : d.keys[j] = key
       IN  Dict(d.keys, [d.items EXCEPT ![i] = value])
  ELSE Dict(Append(d.keys, key), Append(d.items, value))

\* a call of a function with its arguments
Call(callee, arguments) == [callee |-> callee, arguments |-> arguments]

HasKey(d, key) == \E i \in 1..Len(d.keys) : d.keys[i] = key

DictGet(d, key) == d.items[CHOOSE j \in 1..Len(d.keys) : d.keys[j] = key]

(***************************************************************************)
(* parse_respecting_nesting: the depth- and quote-aware scanner.           *)
(***************************************************************************)
ScanInit ==
  [i |-> 0, elements |-> <<>>, current_element |-> <<>>,
   bracket_depth |-> 0, paren_depth |-> 0, brace_depth |-> 0,
   in_quotes |-> FALSE, quote_char |-> ""]

\* AtTarget without the test for an open quoted literal
AtTarget_IgnoresQuotes(st, char, target_char) ==
  /\ char \notin {"\"", "'", "[", "]", "(", ")", "{", "}"}
  /\ char = target_char
  /\ st.bracket_depth = 0
  /\ st.paren_depth = 0
  /\ st.brace_depth = 0

\* AtTarget without the parenthesis depth test
AtTarget_IgnoresParens(st, char, target_char) ==
  /\ ~(char \in {"\"", "'"} /\ ~st.in_quotes)
  /\ ~(char = st.quote_char /\ st.in_quotes)
  /\ ~st.in_quotes
  /\ char \notin {"[", "]", "(", ")", "{", "}"}
  /\ char = target_char
  /\ st.bracket_depth = 0
  /\ st.brace_depth = 0

\* the branch of the if/elif chain that ends in the separator test
AtTarget(st, char, target_char) ==
  /\ ~(char \in {"\"", "'"} /\ ~st.in_quotes)
  /\ ~(char = st.quote_char /\ st.in_quotes)
  /\ ~st.in_quotes
  /\ char \notin {"[", "]", "(", ")", "{", "}"}
  /\ char = target_char
  /\ st.bracket_depth = 0
  /\ st.paren_depth = 0
  /\ st.brace_depth = 0

\* Track with a literal that either quote character closes
Track_AnyQuoteCloses(st, char) ==
  IF char \in {"\"", "'"} /\ ~st.in_quotes
    THEN [st EXCEPT !.in_quotes = TRUE, !.quote_char = char]
  ELSE IF char \in {"\"", "'"} /\ st.in_quotes
    THEN [st EXCEPT !.in_quotes = FALSE, !.quote_char = ""]
  ELSE IF ~st.in_quotes
    THEN CASE char = "[" -> [st EXCEPT !.bracket_depth = @ + 1]
           [] char = "]" -> [st EXCEPT !.bracket_depth = @ - 1]
           [] char = "(" -> [st EXCEPT !.paren_depth = @ + 1]
           [] char = ")" -> [st EXCEPT !.paren_depth = @ - 1]
           [] char = "{" -> [st EXCEPT !.brace_depth = @ + 1]
           [] char = "}" -> [st EXCEPT !.brace_depth = @ - 1]
           [] OTHER -> st
  ELSE st

\* the quote and depth bookkeeping of one loop iteration
Track(st, char) ==
  IF char \in {"\"", "'"} /\ ~st.in_quotes
    THEN [st EXCEPT !.in_quotes = TRUE, !.quote_char = char]
  ELSE IF char = st.quote_char /\ st.in_quotes
    THEN [st EXCEPT !.in_quotes = FALSE, !.quote_char = ""]
  ELSE IF ~st.in_quotes
    THEN CASE char = "[" -> [st EXCEPT !.bracket_depth = @ + 1]
           [] char = "]" -> [st EXCEPT !.bracket_depth = @ - 1]
           [] char = "(" -> [st EXCEPT !.paren_depth = @ + 1]
           [] char = ")" -> [st EXCEPT !.paren_depth = @ - 1]
           [] char = "{" -> [st EXCEPT !.brace_depth = @ + 1]
           [] char = "}" -> [st EXCEPT !.brace_depth = @ - 1]
           [] OTHER -> st
  ELSE st

\* OnSeparator without the test for a blank element
OnSeparator_KeepsBlank(st) ==
  [st EXCEPT !.elements = Append(@, Strip(st.current_element)),
             !.current_element = <<>>,
             !.i = @ + 1]

\* OnSeparator that carries the element on behind the separator
OnSeparator_CarriesElement(st) ==
  [st EXCEPT !.elements = IF Strip(st.current_element) # <<>>
                            THEN Append(@, Strip(st.current_element)) ELSE @,
             !.i = @ + 1]

\* what a separator at depth zero does in split mode
OnSeparator(st) ==
  [st EXCEPT !.elements = IF Strip(st.current_element) # <<>>
                            THEN Append(@, Strip(st.current_element)) ELSE @,
             !.current_element = <<>>,
             !.i = @ + 1]

\* the rest of an iteration
OnOther(st, char, split_mode) ==
  [Track(st, char) EXCEPT
     !.current_element = IF split_mode THEN Append(@, char) ELSE @,
     !.i = @ + 1]

\* ScanEnd without the last element
ScanEnd_NoLast(st, split_mode) == IF split_mode THEN st.elements ELSE -1

\* after the loop
ScanEnd(st, split_mode) ==
  IF split_mode
    THEN IF Strip(st.current_element) # <<>>
           THEN Append(st.elements, Strip(st.current_element))
           ELSE st.elements
    ELSE -1

RECURSIVE ScanLoop(_, _, _, _)
ScanLoop(s, target_char, split_mode, st) ==
  IF st.i >= Len(s)
    THEN ScanEnd(st, split_mode)
    ELSE LET char == s[st.i + 1]
         IN  IF AtTarget(st, char, target_char)
               THEN IF split_mode
                      THEN ScanLoop(s, target_char, split_mode, OnSeparator(st))
                      ELSE st.i
               ELSE ScanLoop(s, target_char, split_mode,
                             OnOther(st, char, split_mode))

\* the variables of the split-mode loop after its first n iterations
RECURSIVE ScanAfter(_, _, _)
ScanAfter(s, target_char, n) ==
  IF n = 0 THEN ScanInit
  ELSE LET st == ScanAfter(s, target_char, n - 1)
       IN  IF AtTarget(st, s[n], target_char) THEN OnSeparator(st)
           ELSE OnOther(st, s[n], TRUE)

parse_respecting_nesting(s, target_char, split_mode) ==
  IF Strip(s) = <<>>
    THEN (IF split_mode THEN <<>> ELSE -1)
    ELSE ScanLoop(s, target_char, split_mode, ScanInit)

split_respecting_nesting(s, separator) ==
  parse_respecting_nesting(s, separator, TRUE)

find_first_unescaped_char(s, target_char) ==
  parse_respecting_nesting(s, target_char, FALSE)

(***************************************************************************)
(* json.loads, as far as the plan texts of the model reach: objects,       *)
(* arrays, strings with the escapes \" \\ \/ \n \t \r, integers and the    *)
(* three literals.  Fractions, exponents, \b \f \u escapes and NaN/Infinity *)
(* need characters no input of the model contains.                         *)
(***************************************************************************)
JsonWs == {" ", "\t", "\n", "\r"}

Digits == {"0", "1", "2", "3", "4", "5", "6", "7", "8", "9"}

JFail == [ok |-> FALSE, v |-> PyNone, pos |-> 0]

JOk(v, pos) == [ok |-> TRUE, v |-> v, pos |-> pos]

\* first index >= i that holds no JSON whitespace (Len(s) + 1 when none)
RECURSIVE SkipWs(_, _)
SkipWs(s, i) ==
  IF i <= Len(s) /\ s[i] \in JsonWs THEN SkipWs(s, i + 1) ELSE i

\* the body of a string literal, from the index after its opening quote
RECURSIVE JStr(_, _, _)
JStr(s, i, acc) ==
  IF i > Len(s) THEN JFail
  ELSE IF s[i] = "\"" THEN JOk(Str(acc), i + 1)
  ELSE IF s[i] = "\\"
    THEN IF i + 1 > Len(s) THEN JFail
         ELSE CASE s[i + 1] = "\"" -> JStr(s, i + 2, Append(acc, "\""))
                [] s[i + 1] = "\\" -> JStr(s, i + 2, Append(acc, "\\"))
                [] s[i + 1] = "/"  -> JStr(s, i + 2, Append(acc, "/"))
                [] s[i + 1] = "n"  -> JStr(s, i + 2, Append(acc, "\n"))
                [] s[i + 1] = "t"  -> JStr(s, i + 2, Append(acc, "\t"))
                [] s[i + 1] = "r"  -> JStr(s, i + 2, Append(acc, "\r"))
                [] OTHER -> JFail
  ELSE IF s[i] \in {"\n", "\t", "\r"} THEN JFail
  ELSE JStr(s, i + 1, Append(acc, s[i]))

\* index after the run of digits that starts at i
RECURSIVE DigitsEnd(_, _)
DigitsEnd(s, i) ==
  IF i <= Len(s) /\ s[i] \in Digits THEN DigitsEnd(s, i + 1) ELSE i

\* -?(0|[1-9][0-9]*)
JNum(s, i) ==
  LET j == IF s[i] = "-" THEN i + 1 ELSE i
  IN  IF j > Len(s) \/ s[j] \notin Digits THEN JFail
      ELSE LET e == IF s[j] = "0" THEN j + 1 ELSE DigitsEnd(s, j)
           IN  JOk(Num(SubSeq(s, i, e - 1)), e)

JLit(s, i, word, v) ==
  IF i + Len(word) - 1 <= Len(s) /\ SubSeq(s, i, i + Len(word) - 1) = word
    THEN JOk(v, i + Len(word)) ELSE JFail

RECURSIVE JValue(_, _), JMembers(_, _, _), JElements(_, _, _)
JValue(s, i) ==
  IF i > Len(s) THEN JFail
  ELSE CASE s[i] = "\"" -> JStr(s, i + 1, <<>>)
         [] s[i] = "{" ->
              LET j == SkipWs(s, i + 1)
              IN  IF j <= Len(s) /\ s[j] = "}" THEN JOk(EmptyDict, j + 1)
                  ELSE JMembers(s, j, EmptyDict)
         [] s[i] = "[" ->
              LET j == SkipWs(s, i + 1)
              IN  IF j <= Len(s) /\ s[j] = "]" THEN JOk(List(<<>>), j + 1)
                  ELSE JElements(s, j, <<>>)
         [] s[i] = "n" -> JLit(s, i, <<"n", "u", "l", "l">>, PyNone)
         [] s[i] = "t" -> JLit(s, i, <<"t", "r", "u", "e">>, PyTrue)
         [] s[i] = "f" -> JLit(s, i, <<"f", "a", "l", "s", "e">>, PyFalse)
         [] OTHER -> JNum(s, i)

\* "key" : value, then "," and the next member, or "}"
JMembers(s, j, d) ==
  IF j > Len(s) \/ s[j] # "\"" THEN JFail
  ELSE LET k == JStr(s, j + 1, <<>>)
       IN  IF ~k.ok THEN JFail
           ELSE LET c == SkipWs(s, k.pos)
                IN  IF c > Len(s) \/ s[c] # ":" THEN JFail
                    ELSE LET v == JValue(s, SkipWs(s, c + 1))
                         IN  IF ~v.ok THEN JFail
                             ELSE LET m == SkipWs(s, v.pos)
                                      d2 == DictSet(d, k.v.s, v.v)
                                  IN  IF m > Len(s) THEN JFail
                                      ELSE IF s[m] = "}" THEN JOk(d2, m + 1)
                                      ELSE IF s[m] = ","
                                        THEN JMembers(s, SkipWs(s, m + 1), d2)
                                      ELSE JFail

\* value, then "," and the next element, or "]"
JElements(s, j, acc) ==
  LET v == JValue(s, j)
  IN  IF ~v.ok THEN JFail
      ELSE LET m == SkipWs(s, v.pos)
           IN  IF m > Len(s) THEN JFail
               ELSE IF s[m] = "]" THEN JOk(List(Append(acc, v.v)), m + 1)
               ELSE IF s[m] = ","
                 THEN JElements(s, SkipWs(s, m + 1), Append(acc, v.v))
               ELSE JFail

\* json.loads(s): ok = FALSE stands for json.JSONDecodeError
JsonLoads(s) ==
  LET v == JValue(s, SkipWs(s, 1))
  IN  IF v.ok /\ SkipWs(s, v.pos) > Len(s) THEN v ELSE JFail

(***************************************************************************)
(* parse_arrow_structure, parse_parameter_value, parse_parameters.         *)
(***************************************************************************)
\* the strings of a list as str values
\* StrList that turns an element with an arrow into a mapping of its own
StrList_ArrowElements(elems) ==
  List([i \in 1..Len(elems) |->
          IF HasArrow(elems[i]) THEN Val("dict", <<>>, <<elems[i]>>, <<Str(<<>>)>>)
          ELSE Str(elems[i])])

\* [field.strip() for field in fields]
StrList(elems) == List([i \in 1..Len(elems) |-> Str(elems[i])])

Arrow == <<"-", ">">>

\* ArrowFound with the test arrow_pos < 0
ArrowFound_AtZero(arrow_pos) == arrow_pos >= 0

\* arrow_pos <= 0 returns the content as it is
ArrowFound(arrow_pos) == arrow_pos > 0

parse_arrow_structure(s) ==
  LET arrow_pos == FindArrow(s)
  IN  IF ~ArrowFound(arrow_pos) THEN Str(s)
      ELSE LET key == Strip(Slice(s, 0, arrow_pos))
               value_part == Strip(Slice(s, arrow_pos + 2, Len(s)))
           IN  IF StartsWith(value_part, "[") /\ EndsWith(value_part, "]")
                 THEN LET array_content == Strip(Inner(value_part))
                      IN  IF array_content # <<>>
                            THEN Dict(<<key \o Arrow>>,
                                      <<StrList(split_respecting_nesting(array_content, ","))>>)
                            ELSE Dict(<<key \o Arrow>>, <<List(<<>>)>>)
                 ELSE Dict(<<key \o Arrow>>, <<Str(value_part)>>)

IsBracketWrapped(item) == StartsWith(Strip(item), "[") /\ EndsWith(Strip(item), "]")

\* IsSimpleArray with all() in place of any()
IsSimpleArray_All(inner_content) ==
  LET items == split_respecting_nesting(inner_content, ",")
  IN  ~\A i \in 1..Len(items) : IsBracketWrapped(items[i])

\* no top-level element of the array is itself bracket-wrapped
IsSimpleArray(inner_content) ==
  LET items == split_respecting_nesting(inner_content, ",")
  IN  ~\E i \in 1..Len(items) : IsBracketWrapped(items[i])

\* the condition of the function-call branch
IsFunctionCall(value_str) ==
  /\ HasChar(value_str, "(")
  /\ EndsWith(value_str, ")")
  /\ HasChar(Slice(value_str, FindChar(value_str, "(") + 1, RFindChar(value_str, ")")), "=")

\* EqFound with the test eq_pos >= 0
EqFound_AtZero(eq_pos) == eq_pos >= 0

\* a '=' at position 0 is no key=value split
EqFound(eq_pos) == eq_pos > 0

IsJsonShaped(value) == StartsWith(value, "{") /\ EndsWith(value, "}")

\* IsArray without the test for the closing bracket
IsArray_OpenOnly(value_str) == StartsWith(value_str, "[")

\* the condition of the array branch
IsArray(value_str) == StartsWith(value_str, "[") /\ EndsWith(value_str, "]")

RECURSIVE parse_parameter_value(_), parse_parameters(_)
RECURSIVE ArrowItems(_, _, _), ArrayItems(_, _, _), ParamLoop(_, _, _)
RECURSIVE ArrowItems_ArrowOnly(_, _, _)

\* ArrowItems that arrow-parses every item that contains "->", bracket-wrapped
\* or not
ArrowItems_ArrowOnly(items, i, parsed_items) ==
  IF i > Len(items) THEN parsed_items
  ELSE LET item == Strip(items[i])
       IN  ArrowItems_ArrowOnly(items, i + 1,
             Append(parsed_items,
               IF HasArrow(item)
                 THEN parse_arrow_structure(Strip(Inner(item)))
                 ELSE parse_parameter_value(item)))

\* the loop over the items of an array that contains "->"
ArrowItems(items, i, parsed_items) ==
  IF i > Len(items) THEN parsed_items
  ELSE LET item == Strip(items[i])
       IN  ArrowItems(items, i + 1,
             Append(parsed_items,
               IF StartsWith(item, "[") /\ EndsWith(item, "]") /\ HasArrow(item)
                 THEN parse_arrow_structure(Strip(Inner(item)))
                 ELSE parse_parameter_value(item)))

\* [parse_parameter_value(item.strip()) for item in items]
ArrayItems(items, i, parsed_items) ==
  IF i > Len(items) THEN parsed_items
  ELSE ArrayItems(items, i + 1,
                  Append(parsed_items, parse_parameter_value(Strip(items[i]))))

parse_parameter_value(raw) ==
  LET value_str == Strip(raw)
  IN  IF IsArray(value_str)
        THEN LET inner_content == Strip(Inner(value_str))
             IN  IF inner_content = <<>> THEN List(<<>>)
                 ELSE IF inner_content = <<"{", "}">> THEN List(<<EmptyDict>>)
                 ELSE IF HasArrow(inner_content)
                   THEN IF ~StartsWith(inner_content, "[")
                          THEN parse_arrow_structure(inner_content)
                          ELSE List(ArrowItems(
                                 split_respecting_nesting(inner_content, ","), 1, <<>>))
                 ELSE IF IsSimpleArray(inner_content) THEN Str(value_str)
                 ELSE List(ArrayItems(
                        split_respecting_nesting(inner_content, ","), 1, <<>>))
      ELSE IF IsFunctionCall(value_str)
        THEN LET paren_pos == FindChar(value_str, "(")
                 func_name == Strip(Slice(value_str, 0, paren_pos))
                 params_str == Strip(Slice(value_str, paren_pos + 1, Len(value_str) - 1))
             IN  IF params_str # <<>>
                   THEN Dict(<<func_name>>, <<parse_parameters(params_str)>>)
                   ELSE Dict(<<func_name>>, <<EmptyDict>>)
      ELSE Str(value_str)

\* ParamValue without the JSON branch
ParamValue_NoJson(value) == parse_parameter_value(value)

\* ParamValue that stores None when decoding fails
ParamValue_NoneOnError(value) ==
  IF IsJsonShaped(value) THEN JsonLoads(value).v ELSE parse_parameter_value(value)

\* the value stored for key=value: decoded JSON when the value is a brace-
\* delimited object that decodes, the classified value otherwise
ParamValue(value) ==
  IF IsJsonShaped(value)
    THEN IF JsonLoads(value).ok
           THEN JsonLoads(value).v
           ELSE parse_parameter_value(value)
    ELSE parse_parameter_value(value)

\* the loop over the top-level parts
ParamLoop(param_parts, i, params) ==
  IF i > Len(param_parts) THEN params
  ELSE LET param_part == Strip(param_parts[i])
           eq_pos == find_first_unescaped_char(param_part, "=")
       IN  IF param_part = <<>> THEN ParamLoop(param_parts, i + 1, params)
           ELSE IF EqFound(eq_pos)
             THEN LET key == Strip(Slice(param_part, 0, eq_pos))
                      value == Strip(Slice(param_part, eq_pos + 1, Len(param_part)))
                  IN  ParamLoop(param_parts, i + 1,
                                DictSet(params, key, ParamValue(value)))
             ELSE ParamLoop(param_parts, i + 1, DictSet(params, param_part, PyTrue))

parse_parameters(params_str) ==
  IF Strip(params_str) = <<>> THEN EmptyDict
  ELSE ParamLoop(split_respecting_nesting(params_str, ","), 1, EmptyDict)

(***************************************************************************)
(* parse_plan_tree.                                                        *)
(***************************************************************************)
WordChars ==
  {"a", "b", "c", "d", "e", "f", "g", "h", "i", "j", "k", "l", "m", "n", "o",
   "p", "q", "r", "s", "t", "u", "v", "w", "x", "y", "z",
   "A", "B", "C", "D", "E", "F", "G", "H", "I", "J", "K", "L", "M", "N", "O",
   "P", "Q", "R", "S", "T", "U", "V", "W", "X", "Y", "Z", "_"} \cup Digits

\* str.split(c) for a one-character c
RECURSIVE SplitOn(_, _)
SplitOn(s, c) ==
  IF ~HasChar(s, c) THEN <<s>>
  ELSE <<Slice(s, 0, FindChar(s, c))>>
         \o SplitOn(Slice(s, FindChar(s, c) + 1, Len(s)), c)

\* length of the longest prefix of word characters: what \w+ takes
RECURSIVE WordRun(_, _)
WordRun(s, n) ==
  IF n < Len(s) /\ s[n + 1] \in WordChars THEN WordRun(s, n + 1) ELSE n

NoMatch == [matched |-> FALSE, name |-> <<>>, params |-> <<>>]

\* OperatorMatch without the anchor $: the parameters end at the last ')'
OperatorMatch_Unanchored(line) ==
  LET n == WordRun(line, 0)
      close == RFindChar(line, ")") + 1
  IN  IF n >= 1 /\ close >= n + 2 /\ line[n + 1] = "("
        THEN [matched |-> TRUE,
              name    |-> SubSeq(line, 1, n),
              params  |-> SubSeq(line, n + 2, close - 1)]
        ELSE NoMatch

\* re.match(r"(\w+)\((.*)\)$", line) on a line without line breaks
OperatorMatch(line) ==
  LET n == WordRun(line, 0)
  IN  IF n >= 1 /\ Len(line) >= n + 2 /\ line[n + 1] = "(" /\ line[Len(line)] = ")"
        THEN [matched |-> TRUE,
              name    |-> SubSeq(line, 1, n),
              params  |-> SubSeq(line, n + 2, Len(line) - 1)]
        ELSE NoMatch

\* PlanInsert that keeps the first occurrence of an operator name
PlanInsert_KeepFirst(result, operator_name, params) ==
  IF HasKey(result, operator_name) THEN result
  ELSE DictSet(result, operator_name, params)

\* result[operator_name] = params
PlanInsert(result, operator_name, params) == DictSet(result, operator_name, params)

RECURSIVE PlanLoop(_, _, _)
PlanLoop(lines, i, result) ==
  IF i > Len(lines) THEN result
  ELSE LET line == Strip(lines[i])
           operator_match == OperatorMatch(line)
       IN  IF line = <<>> THEN PlanLoop(lines, i + 1, result)
           ELSE IF operator_match.matched
             THEN PlanLoop(lines, i + 1,
                    PlanInsert(result, operator_match.name,
                               parse_parameters(operator_match.params)))
           ELSE PlanLoop(lines, i + 1, result)

parse_plan_tree(plan_str) ==
  IF Strip(plan_str) = <<>> THEN EmptyDict
  ELSE PlanLoop(SplitOn(Strip(plan_str), "\n"), 1, EmptyDict)

(***************************************************************************)
(* The calls a parser makes to parse_parameter_value and parse_parameters, *)
(* in the order it makes them.                                             *)
(***************************************************************************)
\* ParamsOfCall that passes the whole token on
ParamsOfCall_Whole(value_str) == value_str

\* params_str = value_str[paren_pos + 1 : -1].strip()
ParamsOfCall(value_str) ==
  Strip(Slice(value_str, FindChar(value_str, "(") + 1, Len(value_str) - 1))

\* an item of an arrow array that goes to parse_parameter_value
GoesToValue(item) ==
  ~(StartsWith(Strip(item), "[") /\ EndsWith(Strip(item), "]") /\ HasArrow(Strip(item)))

ValueCall(item) == Call("parse_parameter_value", <<Str(Strip(item))>>)

\* one call per item, in order
ItemCalls(items) == [i \in 1..Len(items) |-> ValueCall(items[i])]

\* the calls of the array branch
ArrayCalls(inner_content) ==
  IF inner_content = <<>> \/ inner_content = <<"{", "}">> THEN <<>>
  ELSE IF HasArrow(inner_content)
    THEN IF ~StartsWith(inner_content, "[") THEN <<>>
         ELSE ItemCalls(SelectSeq(split_respecting_nesting(inner_content, ","),
                                  GoesToValue))
  ELSE IF IsSimpleArray(inner_content) THEN <<>>
  ELSE ItemCalls(split_respecting_nesting(inner_content, ","))

\* the calls of parse_parameter_value(raw)
ValueCalls(raw) ==
  IF IsArray(Strip(raw)) THEN ArrayCalls(Strip(Inner(Strip(raw))))
  ELSE IF IsFunctionCall(Strip(raw)) /\ ParamsOfCall(Strip(raw)) # <<>>
    THEN <<Call("parse_parameters", <<Str(ParamsOfCall(Strip(raw)))>>)>>
  ELSE <<>>

\* value = param_part[eq_pos + 1 :].strip()
ValueOfPart(param_part) ==
  Strip(Slice(param_part, find_first_unescaped_char(param_part, "=") + 1,
              Len(param_part)))

\* a part whose value goes to parse_parameter_value: key=value with a value
\* that is no brace-delimited object json.loads decodes
PartGoesToValue(param_part) ==
  /\ Strip(param_part) # <<>>
  /\ EqFound(find_first_unescaped_char(Strip(param_part), "="))
  /\ IsJsonShaped(ValueOfPart(Strip(param_part)))
       => ~JsonLoads(ValueOfPart(Strip(param_part))).ok

PartCall(param_part) ==
  Call("parse_parameter_value", <<Str(ValueOfPart(Strip(param_part)))>>)

PartCalls(param_parts) == [i \in 1..Len(param_parts) |-> PartCall(param_parts[i])]

\* the calls of parse_parameters(params_str)
ParamCalls(params_str) ==
  IF Strip(params_str) = <<>> THEN <<>>
  ELSE PartCalls(SelectSeq(split_respecting_nesting(params_str, ","), PartGoesToValue))

LineMatches(line) == Strip(line) # <<>> /\ OperatorMatch(Strip(line)).matched

LineCall(line) == Call("parse_parameters", <<Str(OperatorMatch(Strip(line)).params)>>)

LineCalls(lines) == [i \in 1..Len(lines) |-> LineCall(lines[i])]

\* the calls of parse_plan_tree(plan_str)
PlanCalls(plan_str) ==
  IF Strip(plan_str) = <<>> THEN <<>>
  ELSE LineCalls(SelectSeq(SplitOn(Strip(plan_str), "\n"), LineMatches))

\* the calls a call makes; parse_arrow_structure makes none
DirectCalls(call) ==
  CASE call.callee = "parse_parameter_value" -> ValueCalls(call.arguments[1].s)
    [] call.callee = "parse_parameters" -> ParamCalls(call.arguments[1].s)
    [] call.callee = "parse_plan_tree" -> PlanCalls(call.arguments[1].s)
    [] OTHER -> <<>>

\* what the outermost call returns
ResultOf(name, s) ==
  CASE name = "parse_parameter_value" -> parse_parameter_value(s)
    [] name = "parse_parameters" -> parse_parameters(s)
    [] name = "parse_plan_tree" -> parse_plan_tree(s)
    [] OTHER -> parse_arrow_structure(s)

(***************************************************************************)
(* json.dumps(data, indent=2), on the values the engine builds.            *)
(***************************************************************************)
RECURSIVE Spaces(_)
Spaces(n) == IF n = 0 THEN <<>> ELSE <<" ">> \o Spaces(n - 1)

\* the escapes of a JSON string literal
EscapeChar(c) ==
  CASE c = "\"" -> <<"\\", "\"">>
    [] c = "\\" -> <<"\\", "\\">>
    [] c = "\n" -> <<"\\", "n">>
    [] c = "\t" -> <<"\\", "t">>
    [] c = "\r" -> <<"\\", "r">>
    [] OTHER -> <<c>>

RECURSIVE Escape(_)
Escape(s) == IF s = <<>> THEN <<>> ELSE EscapeChar(Head(s)) \o Escape(Tail(s))

Quoted(s) == <<"\"">> \o Escape(s) \o <<"\"">>

RECURSIVE JsonDumps(_, _), DumpItems(_, _, _), DumpMembers(_, _, _)
\* v at nesting level n
JsonDumps(v, n) ==
  CASE v.tag = "str" -> Quoted(v.s)
    [] v.tag = "num" -> v.s
    [] v.tag = "true" -> <<"t", "r", "u", "e">>
    [] v.tag = "false" -> <<"f", "a", "l", "s", "e">>
    [] v.tag = "null" -> <<"n", "u", "l", "l">>
    [] v.tag = "list" ->
         IF v.items = <<>> THEN <<"[", "]">>
         ELSE <<"[", "\n">> \o DumpItems(v, 1, n + 1)
                \o <<"\n">> \o Spaces(2 * n) \o <<"]">>
    [] v.tag = "dict" ->
         IF v.keys = <<>> THEN <<"{", "}">>
         ELSE <<"{", "\n">> \o DumpMembers(v, 1, n + 1)
                \o <<"\n">> \o Spaces(2 * n) \o <<"}">>

DumpItems(v, i, n) ==
  Spaces(2 * n) \o JsonDumps(v.items[i], n)
    \o (IF i = Len(v.items) THEN <<>> ELSE <<",", "\n">> \o DumpItems(v, i + 1, n))

DumpMembers(v, i, n) ==
  Spaces(2 * n) \o Quoted(v.keys[i]) \o <<":", " ">> \o JsonDumps(v.items[i], n)
    \o (IF i = Len(v.keys) THEN <<>> ELSE <<",", "\n">> \o DumpMembers(v, i + 1, n))

(***************************************************************************)
(* Subscripting a decoded JSON value, with the exception Python raises.    *)
(***************************************************************************)
Raise(name) == Val("exc", <<name>>, <<>>, <<>>)

IsExc(v) == v.tag = "exc"

Key(s) == [index |-> FALSE, key |-> s]

Index0 == [index |-> TRUE, key |-> <<>>]

\* v[k] for a string key k, v[0] for Index0
Subscript(v, k) ==
  IF ~k.index
    THEN CASE v.tag = "dict" ->
                IF HasKey(v, k.key) THEN DictGet(v, k.key) ELSE Raise("KeyError")
           [] OTHER -> Raise("TypeError")
    ELSE CASE v.tag = "list" ->
                IF v.items # <<>> THEN v.items[1] ELSE Raise("IndexError")
           [] v.tag = "str" ->
                IF v.s # <<>> THEN Str(<<v.s[1]>>) ELSE Raise("IndexError")
           [] v.tag = "dict" -> Raise("KeyError")
           [] OTHER -> Raise("TypeError")

\* v[p1][p2]...
RECURSIVE GetPath(_, _)
GetPath(v, path) ==
  IF path = <<>> THEN v
  ELSE LET x == Subscript(v, Head(path))
       IN  IF IsExc(x) THEN x ELSE GetPath(x, Tail(path))

\* SetPath that rebuilds each container on the path with the one entry it sets
RECURSIVE SetPath_KeepsOnlyPath(_, _, _)
SetPath_KeepsOnlyPath(v, path, new) ==
  IF path = <<>> THEN new
  ELSE LET k == Head(path)
       IN  IF k.index
             THEN List(<<SetPath_KeepsOnlyPath(v.items[1], Tail(path), new)>>)
             ELSE Dict(<<k.key>>,
                       <<SetPath_KeepsOnlyPath(DictGet(v, k.key), Tail(path), new)>>)

\* v[p1][p2]... = new, for a path GetPath has walked through dicts and lists
RECURSIVE SetPath(_, _, _)
SetPath(v, path, new) ==
  IF path = <<>> THEN new
  ELSE LET k == Head(path)
       IN  IF k.index
             THEN List([v.items EXCEPT ![1] = SetPath(v.items[1], Tail(path), new)])
             ELSE DictSet(v, k.key, SetPath(DictGet(v, k.key), Tail(path), new))

(***************************************************************************)
(* ExplainResults.explain_legacy and ExplainResults.explain_calcite.       *)
(***************************************************************************)
K_root == <<"r", "o", "o", "t">>
K_description == <<"d", "e", "s", "c", "r", "i", "p", "t", "i", "o", "n">>
K_fields == <<"f", "i", "e", "l", "d", "s">>
K_children == <<"c", "h", "i", "l", "d", "r", "e", "n">>
K_request == <<"r", "e", "q", "u", "e", "s", "t">>
K_sourceBuilder == <<"s", "o", "u", "r", "c", "e", "B", "u", "i", "l", "d", "e", "r">>
K_calcite == <<"c", "a", "l", "c", "i", "t", "e">>
K_logical == <<"l", "o", "g", "i", "c", "a", "l">>
K_physical == <<"p", "h", "y", "s", "i", "c", "a", "l">>

FieldsPath == <<Key(K_root), Key(K_description), Key(K_fields)>>

RequestPath ==
  <<Key(K_root), Key(K_children), Index0, Key(K_description), Key(K_request)>>

LogicalPath == <<Key(K_calcite), Key(K_logical)>>

PhysicalPath == <<Key(K_calcite), Key(K_physical)>>

\* str.strip("[]")
StripBrackets(s) ==
  LET idx == {i \in 1..Len(s) : s[i] \notin {"[", "]"}}
  IN  IF idx = {} THEN <<>> ELSE SubSeq(s, MinOf(idx), MaxOf(idx))

\* [f.strip() for f in fields_str.strip("[]").split(",") if f.strip()]
RECURSIVE StrippedNonEmpty(_)
StrippedNonEmpty(fs) ==
  IF fs = <<>> THEN <<>>
  ELSE (IF Strip(Head(fs)) # <<>> THEN <<Str(Strip(Head(fs)))>> ELSE <<>>)
         \o StrippedNonEmpty(Tail(fs))

FieldsList(fields_str) == List(StrippedNonEmpty(SplitOn(StripBrackets(fields_str), ",")))

\* re.match(r"(\w+)\((.*)\)", request_str): the name, '(' and everything up to
\* the last ')' of the first line
RequestMatch(request_str) ==
  LET n     == WordRun(request_str, 0)
      nl    == {i \in 1..Len(request_str) : i > n + 1 /\ request_str[i] = "\n"}
      stop  == IF nl = {} THEN Len(request_str) + 1 ELSE MinOf(nl)
      close == {i \in (n + 2)..(stop - 1) : request_str[i] = ")"}
  IN  IF n >= 1 /\ Len(request_str) >= n + 1 /\ request_str[n + 1] = "(" /\ close # {}
        THEN [matched |-> TRUE,
              name    |-> SubSeq(request_str, 1, n),
              params  |-> SubSeq(request_str, n + 2, MaxOf(close) - 1)]
        ELSE NoMatch

\* LookaheadSplits without the lookahead: every ", "
LookaheadSplits_EveryCommaSpace(inner) ==
  {i \in 1..(Len(inner) - 1) : inner[i] = "," /\ inner[i + 1] = " "}

\* the positions of ", " that are followed by \w+=
LookaheadSplits(inner) ==
  {i \in 1..(Len(inner) - 1) :
     /\ inner[i] = ","
     /\ inner[i + 1] = " "
     /\ LET rest == SubSeq(inner, i + 2, Len(inner))
            n    == WordRun(rest, 0)
        IN  n >= 1 /\ n < Len(rest) /\ rest[n + 1] = "="}

\* re.split(r", (?=\w+=)", inner)
RECURSIVE SplitParts(_, _, _)
SplitParts(inner, P, from) ==
  LET later == {i \in P : i >= from}
  IN  IF later = {} THEN <<SubSeq(inner, from, Len(inner))>>
      ELSE <<SubSeq(inner, from, MinOf(later) - 1)>>
             \o SplitParts(inner, P, MinOf(later) + 2)

\* json.loads(val) of the sourceBuilder value: a text that is not JSON raises
SourceBuilderValue(decoded) ==
  IF decoded.ok THEN decoded.v ELSE Raise("JSONDecodeError")

\* RequestValue that keeps every value as text
RequestValue_AllRaw(key, val) == Str(val)

\* val_obj of one part: json.loads for sourceBuilder, the text otherwise
RequestValue(key, val) ==
  IF key = K_sourceBuilder THEN SourceBuilderValue(JsonLoads(val)) ELSE Str(val)

\* the loop over the parts; key, val = part.split("=", 1) needs a '='
RECURSIVE RequestLoop(_, _, _), RequestStore(_, _, _, _, _)
RequestLoop(parts, i, request_obj) ==
  IF i > Len(parts) THEN request_obj
  ELSE LET part == parts[i]
           eq   == FindChar(part, "=")
       IN  IF eq < 0 THEN Raise("ValueError")
           ELSE RequestStore(parts, i, request_obj, Slice(part, 0, eq),
                             RequestValue(Slice(part, 0, eq),
                                          Slice(part, eq + 1, Len(part))))

\* request_obj[key] = val_obj, then the next part
RequestStore(parts, i, request_obj, key, val_obj) ==
  IF IsExc(val_obj) THEN val_obj
  ELSE RequestLoop(parts, i + 1, DictSet(request_obj, key, val_obj))

\* {request_name: request_obj}
RequestNamed(request_name, request_obj) ==
  IF IsExc(request_obj) THEN request_obj
  ELSE Dict(<<request_name>>, <<request_obj>>)

\* the branch on the match: the descriptor itself when the pattern does not match
RequestFromMatch(request_str, match) ==
  IF ~match.matched THEN Str(request_str)
  ELSE RequestNamed(match.name,
                    RequestLoop(SplitParts(match.params,
                                           LookaheadSplits(match.params), 1),
                                1, EmptyDict))

\* the structured request of a request descriptor
RequestStructure(request_str) ==
  RequestFromMatch(request_str, RequestMatch(request_str))

\* data[...]["request"] = request; return json.dumps(data, indent=2)
LegacyDump(data, request) ==
  IF IsExc(request) THEN request
  ELSE Str(JsonDumps(SetPath(data, RequestPath, request), 0))

\* the request descriptor must be a str for re.match
LegacyRequest(data, request_str) ==
  IF IsExc(request_str) THEN request_str
  ELSE IF request_str.tag # "str" THEN Raise("TypeError")
  ELSE LegacyDump(data, RequestStructure(request_str.s))

\* data["root"]["description"]["fields"] = fields_list, then the request
LegacyFields(data, fields_str) ==
  IF IsExc(fields_str) THEN fields_str
  ELSE IF fields_str.tag # "str" THEN Raise("AttributeError")
  ELSE LegacyRequest(SetPath(data, FieldsPath, FieldsList(fields_str.s)),
                     GetPath(SetPath(data, FieldsPath, FieldsList(fields_str.s)),
                             RequestPath))

\* data = json.loads(result)
LegacyData(decoded) ==
  IF ~decoded.ok THEN Raise("JSONDecodeError")
  ELSE LegacyFields(decoded.v, GetPath(decoded.v, FieldsPath))

explain_legacy(result) == LegacyData(JsonLoads(result))

\* parse_plan_tree reads a str; any other value has no strip()
PlanStructure(plan) ==
  IF plan.tag = "str" THEN parse_plan_tree(plan.s)
  ELSE IF plan.tag \in {"list", "dict"} /\ plan.items = <<>> THEN EmptyDict
  ELSE IF plan.tag \in {"null", "false"} THEN EmptyDict
  ELSE IF plan.tag = "num" /\ plan.s \in {<<"0">>, <<"-", "0">>} THEN EmptyDict
  ELSE Raise("AttributeError")

\* data["calcite"]["physical"] = physical_structured; return json.dumps(data, indent=2)
CalciteDump(data, physical_structured) ==
  IF IsExc(physical_structured) THEN physical_structured
  ELSE Str(JsonDumps(SetPath(data, PhysicalPath, physical_structured), 0))

\* physical_str = data["calcite"]["physical"] and its structure
CalcitePhysical(data, physical_str) ==
  IF IsExc(physical_str) THEN physical_str
  ELSE CalciteDump(data, PlanStructure(physical_str))

\* data["calcite"]["logical"] = logical_structured, then the physical plan
CalciteLogical(data, logical_structured) ==
  IF IsExc(logical_structured) THEN logical_structured
  ELSE CalcitePhysical(SetPath(data, LogicalPath, logical_structured),
                       GetPath(data, PhysicalPath))

\* CalcitePlans that structures the physical text for both stages
CalcitePlans_PhysicalOnly(data, logical_str) ==
  IF IsExc(logical_str) THEN logical_str
  ELSE CalciteLogical(data, PlanStructure(GetPath(data, PhysicalPath)))

\* logical_str = data["calcite"]["logical"] and its structure
CalcitePlans(data, logical_str) ==
  IF IsExc(logical_str) THEN logical_str
  ELSE CalciteLogical(data, PlanStructure(logical_str))

\* data = json.loads(result)
CalciteData(decoded) ==
  IF ~decoded.ok THEN Raise("JSONDecodeError")
  ELSE CalcitePlans(decoded.v, GetPath(decoded.v, LogicalPath))

explain_calcite(result) == CalciteData(JsonLoads(result))

(***************************************************************************)
(* ExecuteQuery.execute_query (query/execute_query.py) with the table      *)
(* formatter it calls (query/query_results.py).  A printed message is kept *)
(* as the literal text of its f-string and the value put into it; escape() *)
(* of rich.markup and the Table objects of rich are kept as what they were *)
(* made from.  The spinner of console.status leaves nothing on the         *)
(* terminal.                                                               *)
(***************************************************************************)
S_InvalidQuery ==
  <<"I", "n", "v", "a", "l", "i", "d", " ", "q", "u", "e", "r", "y">>

S_QueryExecutionError ==
  <<"q", "u", "e", "r", "y", "E", "x", "e", "c", "u", "t", "i", "o", "n",
    " ", "E", "r", "r", "o", "r">>

S_IndexNotFound ==
  <<"i", "n", "d", "e", "x", "_", "n", "o", "t", "_", "f", "o", "u", "n",
    "d", "_", "e", "x", "c", "e", "p", "t", "i", "o", "n">>

S_SyntaxCheck ==
  <<"S", "y", "n", "t", "a", "x", "C", "h", "e", "c", "k", "E", "x", "c",
    "e", "p", "t", "i", "o", "n">>

S_SemanticCheck ==
  <<"S", "e", "m", "a", "n", "t", "i", "c", "C", "h", "e", "c", "k", "E",
    "x", "c", "e", "p", "t", "i", "o", "n">>

S_StatementIsNull ==
  <<"\"", "s", "t", "a", "t", "e", "m", "e", "n", "t", "\"", " ", "i", "s",
    " ", "n", "u", "l", "l">>

S_table == <<"t", "a", "b", "l", "e">>

S_csv == <<"c", "s", "v">>

K_schema == <<"s", "c", "h", "e", "m", "a">>

K_datarows == <<"d", "a", "t", "a", "r", "o", "w", "s">>

K_total == <<"t", "o", "t", "a", "l">>

K_size == <<"s", "i", "z", "e">>

K_name == <<"n", "a", "m", "e">>

K_alias == <<"a", "l", "i", "a", "s">>

K_message == <<"m", "e", "s", "s", "a", "g", "e">>

K_error == <<"e", "r", "r", "o", "r">>

K_result == <<"r", "e", "s", "u", "l", "t">>

K_table == <<"t", "a", "b", "l", "e">>

K_tables == <<"t", "a", "b", "l", "e", "s">>

K_vertical == <<"v", "e", "r", "t", "i", "c", "a", "l">>

\* sub in s
Contains(s, sub) ==
  \E i \in 0..(Len(s) - Len(sub)) : SubSeq(s, i + 1, i + Len(sub)) = sub

\* s.find(sub)
FindStr(s, sub) ==
  IF Contains(s, sub)
    THEN MinOf({i \in 0..(Len(s) - Len(sub)) : SubSeq(s, i + 1, i + Len(sub)) = sub})
    ELSE -1

\* s.startswith(prefix)
StartsWithStr(s, prefix) ==
  Len(s) >= Len(prefix) /\ SubSeq(s, 1, Len(prefix)) = prefix

\* s.split(sep, 1)
SplitOnce(s, sep) ==
  IF FindStr(s, sep) < 0 THEN <<s>>
  ELSE <<Slice(s, 0, FindStr(s, sep)), Slice(s, FindStr(s, sep) + Len(sep), Len(s))>>

UpperCase ==
  <<"A", "B", "C", "D", "E", "F", "G", "H", "I", "J", "K", "L", "M", "N", "O",
    "P", "Q", "R", "S", "T", "U", "V", "W", "X", "Y", "Z">>

LowerCase ==
  <<"a", "b", "c", "d", "e", "f", "g", "h", "i", "j", "k", "l", "m", "n", "o",
    "p", "q", "r", "s", "t", "u", "v", "w", "x", "y", "z">>

\* str.lower()
Lower(s) ==
  [i \in 1..Len(s) |->
     IF \E n \in 1..26 : UpperCase[n] = s[i]
       THEN LowerCase[CHOOSE n \in 1..26 : UpperCase[n] = s[i]]
       ELSE s[i]]

\* rich.markup.escape(s)
RichEscape(s) == Val("escape", s, <<>>, <<>>)

\* a rich Table with its title, columns and rows
RichTable(title, columns, rows) == Val("table", title, <<>>, <<List(columns), List(rows)>>)

\* str(table_data)
Repr(v) == Val("repr", <<>>, <<>>, <<v>>)

\* the tuple (success, result, formatted_result)
Tuple3(success, result, formatted_result) ==
  Val("tuple", <<>>, <<>>, <<success, result, formatted_result>>)

\* one call of print_function, one call of console.print
Printed(template, value) == [by |-> "print_function", template |-> template, value |-> value]

ConsolePrinted(template, value) == [by |-> "console", template |-> template, value |-> value]

\* a Python bool
Bool(b) == IF b THEN PyTrue ELSE PyFalse

\* what a branch of execute_query leaves behind: the returned value or the
\* exception, the calls it made and what it printed
Out(r, c, p) == [ret |-> r, calls |-> c, printed |-> p]

\* {"message": ..., "error": True, "result": result}, after console.print
TableError(console_template, message, result) ==
  [table_data |-> Dict(<<K_message, K_error, K_result>>,
                       <<Str(message), PyTrue, Str(result)>>),
   console |-> <<ConsolePrinted(console_template, Str(message))>>]

\* field.get("alias", field["name"])
FieldName(field) ==
  IF HasKey(field, K_alias) THEN DictGet(field, K_alias) ELSE DictGet(field, K_name)

\* str(val) if val is not None else "<null>", for a cell that is a string
CellStr(val) == IF val.tag = "null" THEN Str(<<"<", "n", "u", "l", "l", ">">>) ELSE val

\* f"Fetched {cur_size} rows with a total of {total_hits} hits"
FetchedMessage(cur_size, total_hits) ==
  Str(<<"F", "e", "t", "c", "h", "e", "d", " ">> \o cur_size.s
        \o <<" ", "r", "o", "w", "s", " ", "w", "i", "t", "h", " ", "a", " ",
             "t", "o", "t", "a", "l", " ", "o", "f", " ">> \o total_hits.s
        \o <<" ", "h", "i", "t", "s">>)

\* the horizontal table: a column per field, a row of strings per data row
HorizontalTable(schema, datarows) ==
  RichTable(<<>>,
            [f \in 1..Len(schema.items) |-> FieldName(schema.items[f])],
            [r \in 1..Len(datarows.items) |->
               List([v \in 1..Len(datarows.items[r].items) |->
                       CellStr(datarows.items[r].items[v])])])

\* f"RECORD {row_idx + 1}", for at most nine rows
RecordTitle(r) ==
  <<"R", "E", "C", "O", "R", "D", " ">>
    \o <<(<<"1", "2", "3", "4", "5", "6", "7", "8", "9">>)[r]>>

\* the vertical tables: one per data row, a Field/Value row per field
VerticalTables(schema, datarows) ==
  List([r \in 1..Len(datarows.items) |->
          RichTable(RecordTitle(r), <<Str(<<"F", "i", "e", "l", "d">>),
                                       Str(<<"V", "a", "l", "u", "e">>)>>,
                    [f \in 1..Len(schema.items) |->
                       List(<<FieldName(schema.items[f]),
                              IF f <= Len(datarows.items[r].items)
                                THEN CellStr(datarows.items[r].items[f])
                                ELSE Str(<<"<", "n", "u", "l", "l", ">">>)>>)])])

\* the two returns of the recognised format
TableOf(data, vertical) ==
  [table_data |->
     IF vertical
       THEN Dict(<<K_message, K_tables, K_vertical>>,
                 <<FetchedMessage(DictGet(data, K_size), DictGet(data, K_total)),
                   VerticalTables(DictGet(data, K_schema), DictGet(data, K_datarows)),
                   PyTrue>>)
       ELSE Dict(<<K_message, K_table, K_vertical>>,
                 <<FetchedMessage(DictGet(data, K_size), DictGet(data, K_total)),
                   HorizontalTable(DictGet(data, K_schema), DictGet(data, K_datarows)),
                   PyFalse>>),
   console |-> <<>>]

\* the decoded response; data["total"] and data["size"] raise KeyError, which
\* except Exception turns into an error result
TableData(result, data, vertical) ==
  IF ~(data.tag = "dict" /\ HasKey(data, K_schema) /\ HasKey(data, K_datarows))
    THEN TableError("[bold red]Error formatting.[/bold red]",
                    <<"E", "r", "r", "o", "r", " ", "f", "o", "r", "m", "a", "t",
                      "t", "i", "n", "g", ".">>, result)
  ELSE IF ~HasKey(data, K_total)
    THEN TableError("[bold red]Error during formatting:[/bold red] {e}",
                    <<"E", "r", "r", "o", "r", " ", "d", "u", "r", "i", "n", "g",
                      " ", "f", "o", "r", "m", "a", "t", "t", "i", "n", "g", ":",
                      " ", "'", "t", "o", "t", "a", "l", "'">>, result)
  ELSE IF ~HasKey(data, K_size)
    THEN TableError("[bold red]Error during formatting:[/bold red] {e}",
                    <<"E", "r", "r", "o", "r", " ", "d", "u", "r", "i", "n", "g",
                      " ", "f", "o", "r", "m", "a", "t", "t", "i", "n", "g", ":",
                      " ", "'", "s", "i", "z", "e", "'">>, result)
  ELSE TableOf(data, vertical)

\* QueryResults.table_format, on responses that are no JSON, no JDBC result,
\* or a JDBC result whose schema is a list of objects with a name, whose rows
\* are lists of strings and nulls and whose total and size, if there, are
\* numbers
TableDecoded(result, decoded, vertical) ==
  IF ~decoded.ok
    THEN TableError("[bold red]Error decoding JSON.[/bold red]",
                    <<"E", "r", "r", "o", "r", " ", "d", "e", "c", "o", "d", "i",
                      "n", "g", " ", "J", "S", "O", "N", ".">>, result)
    ELSE TableData(result, decoded.v, vertical)

table_format(result, vertical) == TableDecoded(result, JsonLoads(result), vertical)

\* "error" in table_data and table_data["error"]
IsErrorTable(table_data) ==
  HasKey(table_data, K_error) /\ DictGet(table_data, K_error) = PyTrue

\* print_function(table); print_function("") for each table
RECURSIVE PrintTables(_, _)
PrintTables(tables, i) ==
  IF i > Len(tables) THEN <<>>
  ELSE <<Printed("{table}", tables[i]), Printed("", PyNone)>> \o PrintTables(tables, i + 1)

\* QueryResults.display_table_result on a table_data of table_format without
\* an error: it has no "result" and no "warning"
display_table_result(table_data) ==
  <<Printed("{message}", DictGet(table_data, K_message))>>
    \o (IF DictGet(table_data, K_vertical) = PyTrue /\ HasKey(table_data, K_tables)
          THEN PrintTables(DictGet(table_data, K_tables).items, 1)
        ELSE IF HasKey(table_data, K_table)
          THEN <<Printed("{table}", DictGet(table_data, K_table))>>
        ELSE <<Printed("[bold red]Error:[/bold red] Unable to display table data", PyNone)>>)

\* result.startswith("Invalid query") or result.startswith("queryExecution Error")
IsErrorResponse(result) ==
  StartsWithStr(result, S_InvalidQuery) \/ StartsWithStr(result, S_QueryExecutionError)

\* return False, result, result
Failure(result, printed_) ==
  Out(Tuple3(PyFalse, Str(result), Str(result)), <<>>, printed_)

\* error_parts = result.split(marker + ":", 1); error_parts[1] raises
\* IndexError when the marker is not followed by a colon
ErrorDetail(result, error_parts, template) ==
  IF Len(error_parts) < 2 THEN Out(Raise("IndexError"), <<>>, <<>>)
  ELSE Failure(result, <<Printed(template, RichEscape(Strip(error_parts[2])))>>)

\* the branch of an error response
ErrorBranch(result) ==
  IF Contains(result, S_IndexNotFound)
    THEN Failure(result, <<Printed("[bold red]Index does not exist[/bold red]", PyNone)>>)
  ELSE IF Contains(result, S_SyntaxCheck)
    THEN ErrorDetail(result, SplitOnce(result, S_SyntaxCheck \o <<":">>),
           "[bold red]Syntax Error: [/bold red][red]{escape(error_parts[1].strip())}[/red]\n")
  ELSE IF Contains(result, S_SemanticCheck)
    THEN ErrorDetail(result, SplitOnce(result, S_SemanticCheck \o <<":">>),
           "[bold red]Semantic Error: [/bold red][red]{escape(error_parts[1].strip())}[/red]\n")
  ELSE IF Contains(result, S_StatementIsNull)
    THEN Failure(result, <<Printed("[bold red]Statement is null[/bold red]", PyNone)>>)
  ELSE Failure(result, <<Printed("[bold red]Error:[/bold red] {escape(str(result))}",
                                  RichEscape(result))>>)

\* print_function(f"Result:\n")
ResultHeader == Printed("Result:\n", PyNone)

\* return True, result, result
Success(result, calls_, printed_) ==
  Out(Tuple3(PyTrue, Str(result), Str(result)), calls_, <<ResultHeader>> \o printed_)

\* explain_result = ExplainResults.<formatter>(result); print_function(explain_result);
\* an exception of the formatter leaves execute_query
ExplainPrinted(result, formatter, explain_result) ==
  IF IsExc(explain_result)
    THEN Out(explain_result, <<Call(formatter, <<Str(result)>>)>>, <<ResultHeader>>)
    ELSE Success(result, <<Call(formatter, <<Str(result)>>)>>,
                 <<Printed("{explain_result}", explain_result)>>)

\* the branch of an explain query; after print_function(f"{result}") the
\* function ends without a return statement
ExplainBranch(result) ==
  IF Contains(result, K_calcite)
    THEN ExplainPrinted(result, "explain_calcite", explain_calcite(result))
  ELSE IF Contains(result, K_root)
    THEN ExplainPrinted(result, "explain_legacy", explain_legacy(result))
  ELSE Out(PyNone, <<>>, <<ResultHeader, Printed("{result}", Str(result))>>)

\* the table format: an error result of table_format, or the displayed table
TableBranch(result, vertical, formatted) ==
  IF IsErrorTable(formatted.table_data)
    THEN Out(Tuple3(PyFalse, Str(result), DictGet(formatted.table_data, K_result)),
             <<Call("table_format", <<Str(result), Bool(vertical)>>)>>,
             <<ResultHeader>> \o formatted.console
               \o <<Printed("[bold red]Error:[/bold red] {table_data['message']}",
                            DictGet(formatted.table_data, K_message))>>)
    ELSE Out(Tuple3(PyTrue, Str(result), Repr(formatted.table_data)),
             <<Call("table_format", <<Str(result), Bool(vertical)>>),
               Call("display_table_result", <<formatted.table_data>>)>>,
             <<ResultHeader>> \o display_table_result(formatted.table_data))

\* the branch of an execute query
ExecuteBranch(result, format, is_vertical) ==
  IF Lower(format) = S_table
    THEN TableBranch(result, is_vertical, table_format(result, is_vertical))
  ELSE IF Lower(format) = S_csv
    THEN Success(result, <<>>, <<Printed("[white]{escape(result)}[/white]", RichEscape(result))>>)
  ELSE Success(result, <<>>, <<Printed("{escape(result)}", RichEscape(result))>>)

\* execute_query after result = connection.query_executor(query, is_ppl_mode, format)
Formatting(result, a) ==
  IF IsErrorResponse(result) THEN ErrorBranch(result)
  ELSE IF a.is_explain THEN ExplainBranch(result)
  ELSE ExecuteBranch(result, a.format, a.is_vertical)

\* console.print(f"\nExecuting: [yellow]{query}[/yellow]\n"), the query, and
\* the rest of the function
execute_query(result, a) ==
  [ret     |-> Formatting(result, a).ret,
   calls   |-> <<Call("query_executor", <<Str(a.query), Bool(a.is_ppl_mode), Str(a.format)>>)>>
                 \o Formatting(result, a).calls,
   printed |-> <<ConsolePrinted("\nExecuting: [yellow]{query}[/yellow]\n", Str(a.query))>>
                 \o Formatting(result, a).printed]

(***************************************************************************)
(* The calls.  Every function of the engine is pure: a call reads its      *)
(* arguments and returns, and nothing is kept between calls.               *)
(***************************************************************************)
RECURSIVE Flatten(_)
Flatten(fs) == IF fs = <<>> THEN <<>> ELSE Head(fs) \o Flatten(Tail(fs))

\* no call made and nothing printed
Quiet == args = <<>> /\ locals = <<>> /\ calls = <<>> /\ printed = <<>>

\* a call is pending on an argument built from at most n pieces of F
Pending(F, n, T) ==
  /\ pc = "idle"
  /\ fn = "none"
  /\ \E k \in 0..n : \E f \in [1..k -> F] : content = Flatten(f)
  /\ target \in T
  /\ ret = <<>>
  /\ Quiet

SplitRespectingNesting ==
  /\ pc = "idle"
  /\ pc' = "returned"
  /\ fn' = "split_respecting_nesting"
  /\ ret' = split_respecting_nesting(content, target)
  /\ UNCHANGED <<content, target, args, locals, calls, printed>>

FindFirstUnescapedChar ==
  /\ pc = "idle"
  /\ pc' = "returned"
  /\ fn' = "find_first_unescaped_char"
  /\ ret' = find_first_unescaped_char(content, target)
  /\ UNCHANGED <<content, target, args, locals, calls, printed>>

ParseParameters ==
  /\ pc = "idle"
  /\ pc' = "returned"
  /\ fn' = "parse_parameters"
  /\ ret' = parse_parameters(content)
  /\ UNCHANGED <<content, target, args, locals, calls, printed>>

ParseParameterValue ==
  /\ pc = "idle"
  /\ pc' = "returned"
  /\ fn' = "parse_parameter_value"
  /\ ret' = parse_parameter_value(content)
  /\ UNCHANGED <<content, target, args, locals, calls, printed>>

ParseArrowStructure ==
  /\ pc = "idle"
  /\ pc' = "returned"
  /\ fn' = "parse_arrow_structure"
  /\ ret' = parse_arrow_structure(content)
  /\ UNCHANGED <<content, target, args, locals, calls, printed>>

ParsePlanTree ==
  /\ pc = "idle"
  /\ pc' = "returned"
  /\ fn' = "parse_plan_tree"
  /\ ret' = parse_plan_tree(content)
  /\ UNCHANGED <<content, target, args, locals, calls, printed>>

ExplainLegacy ==
  /\ pc = "idle"
  /\ ret' = explain_legacy(content)
  /\ pc' = IF IsExc(ret') THEN "raised" ELSE "returned"
  /\ fn' = "explain_legacy"
  /\ UNCHANGED <<content, target, args, locals, calls, printed>>

ExplainCalcite ==
  /\ pc = "idle"
  /\ ret' = explain_calcite(content)
  /\ pc' = IF IsExc(ret') THEN "raised" ELSE "returned"
  /\ fn' = "explain_calcite"
  /\ UNCHANGED <<content, target, args, locals, calls, printed>>

\* the connection answers with content; execute_query formats and prints it
ExecuteQuery ==
  /\ pc = "idle"
  /\ ret' = execute_query(content, args).ret
  /\ calls' = execute_query(content, args).calls
  /\ printed' = execute_query(content, args).printed
  /\ pc' = IF IsExc(ret') THEN "raised" ELSE "returned"
  /\ fn' = "execute_query"
  /\ UNCHANGED <<content, target, args, locals>>

(***************************************************************************)
(* The scanner loop one iteration at a time, and a parser one call at a    *)
(* time: the call that is running makes its calls, which wait in calls     *)
(* until they run in turn.                                                 *)
(***************************************************************************)
SplitMode == fn = "split_respecting_nesting"

ScanMode == fn \in {"split_respecting_nesting", "find_first_unescaped_char"}

\* the scanner is called on a content and a target character
ScanEnter(Contents, Targets) ==
  /\ pc = "idle"
  /\ ScanMode
  /\ pc' = "entered"
  /\ content' \in Contents
  /\ target' \in Targets
  /\ UNCHANGED <<fn, args, locals, ret, calls, printed>>

\* a blank content returns before the loop; otherwise the loop variables are set
ScanStart ==
  /\ pc = "entered"
  /\ IF Strip(content) = <<>>
       THEN /\ pc' = "returned"
            /\ ret' = (IF SplitMode THEN <<>> ELSE -1)
            /\ locals' = locals
       ELSE /\ pc' = "loop"
            /\ ret' = ret
            /\ locals' = ScanInit
  /\ UNCHANGED <<fn, content, target, args, calls, printed>>

\* one iteration of while i < len(content)
ScanIterate ==
  /\ pc = "loop"
  /\ locals.i < Len(content)
  /\ IF AtTarget(locals, content[locals.i + 1], target)
       THEN IF SplitMode
              THEN /\ locals' = OnSeparator(locals)
                   /\ pc' = pc
                   /\ ret' = ret
              ELSE /\ pc' = "returned"
                   /\ ret' = locals.i
                   /\ locals' = locals
       ELSE /\ locals' = OnOther(locals, content[locals.i + 1], SplitMode)
            /\ pc' = pc
            /\ ret' = ret
  /\ UNCHANGED <<fn, content, target, args, calls, printed>>

\* the loop condition fails
ScanLeave ==
  /\ pc = "loop"
  /\ locals.i >= Len(content)
  /\ pc' = "returned"
  /\ ret' = ScanEnd(locals, SplitMode)
  /\ UNCHANGED <<fn, content, target, args, locals, calls, printed>>

\* the caller keeps what the call was given and what it returned, and has a
\* further envelope to format
CallAgain(Contents) ==
  /\ pc = "returned"
  /\ locals = <<>>
  /\ pc' = "idle"
  /\ locals' = [envelope |-> content, output |-> ret]
  /\ content' \in Contents
  /\ UNCHANGED <<fn, target, args, ret, calls, printed>>

\* a parser is called on a content
ParserEnter(Contents) ==
  /\ pc = "idle"
  /\ ~ScanMode
  /\ pc' = "running"
  /\ content' \in Contents
  /\ calls' = <<Call(fn, <<Str(content')>>)>>
  /\ UNCHANGED <<fn, target, args, locals, ret, printed>>

\* the next waiting call runs and makes its own calls
ParserDescend ==
  /\ pc = "running"
  /\ calls # <<>>
  /\ calls' = DirectCalls(Head(calls)) \o Tail(calls)
  /\ UNCHANGED <<pc, fn, content, target, args, locals, ret, printed>>

\* no call is left: the outermost call returns
ParserLeave ==
  /\ pc = "running"
  /\ calls = <<>>
  /\ pc' = "returned"
  /\ ret' = ResultOf(fn, content)
  /\ UNCHANGED <<fn, content, target, args, locals, calls, printed>>

(***************************************************************************)
(* The scanner on every string of at most MaxLen characters.               *)
(***************************************************************************)
ScanChars ==
  {<<"a">>, <<",">>, <<" ">>, <<"[">>, <<"]">>, <<"(">>, <<")">>,
   <<"{">>, <<"}">>, <<"'">>, <<"\"">>}

Separators == {",", " ", "(", "'", "a"}

InitScan == Pending(ScanChars, MaxLen, Separators)

NextScan == SplitRespectingNesting \/ FindFirstUnescapedChar

SpecScan == InitScan /\ [][NextScan]_vars

(***************************************************************************)
(* The parameter-list parser on lists built from at most MaxParamFrags     *)
(* pieces: flags, key=value parts, nested and quoted '=', brace-delimited  *)
(* values that decode and that do not.                                     *)
(***************************************************************************)
MaxParamFrags == 4

JsonFrom0 == <<"{", "\"", "f", "r", "o", "m", "\"", ":", "0", "}">>

ParamFrags ==
  {<<"a">>, <<"=">>, <<",">>, <<"(">>, <<")">>, <<"'">>, <<" ">>,
   <<"k", "=">>, <<"{", "}">>, <<"{", "a", "}">>,
   <<"{", "\"", "f", "r", "o", "m", "\"", ":", "0", "}">>}

InitParams == Pending(ParamFrags, MaxParamFrags, {","})

NextParams == ParseParameters \/ ParseParameterValue

SpecParams == InitParams /\ [][NextParams]_vars

(***************************************************************************)
(* The value classifier on array tokens built from at most MaxArrayFrags   *)
(* pieces.                                                                 *)
(***************************************************************************)
MaxArrayFrags == 5

ArrayFrags ==
  {<<"a">>, <<",">>, <<"[">>, <<"]">>, <<"[", "a", "]">>, <<"-", ">">>,
   <<"{", "}">>, <<" ">>, <<"f", "(", "a", "=", "a", ")">>}

InitArray == Pending(ArrayFrags, MaxArrayFrags, {","})

NextArray == ParseParameterValue

SpecArray == InitArray /\ [][NextArray]_vars

(***************************************************************************)
(* The value classifier on call-shaped tokens built from at most           *)
(* MaxCallFrags pieces.                                                    *)
(***************************************************************************)
MaxCallFrags == 5

CallFrags ==
  {<<"f", "(">>, <<"g", "(">>, <<")">>, <<"a", "=", "1">>, <<"a">>, <<",">>,
   <<"'">>, <<"[">>, <<"]">>, <<" ">>}

InitCall == Pending(CallFrags, MaxCallFrags, {","})

NextCall == ParseParameterValue

SpecCall == InitCall /\ [][NextCall]_vars

(***************************************************************************)
(* The arrow parser on contents built from at most MaxArrowFrags pieces.   *)
(***************************************************************************)
MaxArrowFrags == 5

ArrowFrags ==
  {<<"P">>, <<"a">>, <<"-", ">">>, <<"[">>, <<"]">>, <<",">>, <<" ">>,
   <<"(", "a", ",", " ", "a", ")">>, <<"[", "a", ",", " ", "a", "]">>}

InitArrow == Pending(ArrowFrags, MaxArrowFrags, {","})

NextArrow == ParseArrowStructure

SpecArrow == InitArrow /\ [][NextArrow]_vars

(***************************************************************************)
(* The plan-tree assembler on plan texts built from at most MaxPlanFrags   *)
(* pieces, and on the logical plan of the test fixture.                    *)
(***************************************************************************)
MaxPlanFrags == 4

PlanFrags ==
  {<<"A", "(", "a", "=", "1", ")", "\n">>, <<"A", "(", "b", ")", "\n">>,
   <<"B", "(", "a", "=", "1", ")", "\n">>, <<"B", "(", ")">>, <<"x">>,
   <<" ">>, <<"\n">>}

\* the "logical" text of mock_calcite_explain
MockCalciteLogical ==
  <<"L", "o", "g", "i", "c", "a", "l", "P", "r", "o", "j", "e", "c", "t",
    "(", "n", "a", "m", "e", "=", "[", "$", "0", "]", ",", " ", "h", "i",
    "r", "e", "_", "d", "a", "t", "e", "=", "[", "$", "1", "]", ",", " ",
    "d", "e", "p", "a", "r", "t", "m", "e", "n", "t", "=", "[", "$", "2",
    "]", ",", " ", "a", "g", "e", "=", "[", "$", "3", "]", ")", "\n", " ",
    " ", "C", "a", "l", "c", "i", "t", "e", "L", "o", "g", "i", "c", "a",
    "l", "I", "n", "d", "e", "x", "S", "c", "a", "n", "(", "t", "a", "b",
    "l", "e", "=", "[", "[", "O", "p", "e", "n", "S", "e", "a", "r", "c",
    "h", ",", " ", "e", "m", "p", "l", "o", "y", "e", "e", "s", "]", "]",
    ")", "\n">>

InitPlan ==
  \/ Pending(PlanFrags, MaxPlanFrags, {","})
  \/ /\ pc = "idle"
     /\ fn = "none"
     /\ content = MockCalciteLogical
     /\ target = ","
     /\ ret = <<>>
     /\ Quiet

NextPlan == ParsePlanTree

SpecPlan == InitPlan /\ [][NextPlan]_vars

(***************************************************************************)
(* The orchestrators on explain envelopes: the legacy envelope with a      *)
(* fields string and a request descriptor of at most MaxRequestFrags       *)
(* pieces, the optimizer envelope with two plan texts of at most           *)
(* MaxStageFrags pieces, and each of them cut short of its last character. *)
(***************************************************************************)
MaxRequestFrags == 3

MaxStageFrags == 2

RequestFrags ==
  {<<"Q", "(">>, <<")">>, <<"a", "=", "1">>,
   <<"s", "o", "u", "r", "c", "e", "B", "u", "i", "l", "d", "e", "r", "=",
     "{", "\"", "f", "r", "o", "m", "\"", ":", "0", "}">>,
   <<"s", "o", "u", "r", "c", "e", "B", "u", "i", "l", "d", "e", "r", "=",
     "{", "a">>,
   <<",", " ">>, <<"x">>}

FieldsStrings == {<<"[", "n", "a", "m", "e", ",", " ", "a", "g", "e", "]">>,
                  <<"[", "]">>}

StageFrags == {<<"A", "(", "a", "=", "1", ")">>, <<"B", "(", ")">>, <<"\n">>,
               <<"x">>}

LegacyEnvelope(fields_str, request_str) ==
  <<"{", "\"", "r", "o", "o", "t", "\"", ":", "{", "\"", "n", "a", "m", "e",
    "\"", ":", "\"", "P", "r", "o", "j", "e", "c", "t", "O", "p", "e", "r",
    "a", "t", "o", "r", "\"", ",", "\"", "d", "e", "s", "c", "r", "i", "p",
    "t", "i", "o", "n", "\"", ":", "{", "\"", "f", "i", "e", "l", "d", "s",
    "\"", ":", "\"">>
    \o Escape(fields_str) \o
  <<"\"", "}", ",", "\"", "c", "h", "i", "l", "d", "r", "e", "n", "\"", ":",
    "[", "{", "\"", "n", "a", "m", "e", "\"", ":", "\"", "O", "p", "e", "n",
    "S", "e", "a", "r", "c", "h", "I", "n", "d", "e", "x", "S", "c", "a",
    "n", "\"", ",", "\"", "d", "e", "s", "c", "r", "i", "p", "t", "i", "o",
    "n", "\"", ":", "{", "\"", "r", "e", "q", "u", "e", "s", "t", "\"", ":",
    "\"">>
    \o Escape(request_str) \o
  <<"\"", "}", ",", "\"", "c", "h", "i", "l", "d", "r", "e", "n", "\"", ":",
    "[", "]", "}", "]", "}", "}">>

CalciteEnvelope(logical_str, physical_str) ==
  <<"{", "\"", "c", "a", "l", "c", "i", "t", "e", "\"", ":", "{", "\"", "l",
    "o", "g", "i", "c", "a", "l", "\"", ":", "\"">>
    \o Escape(logical_str) \o
  <<"\"", ",", "\"", "p", "h", "y", "s", "i", "c", "a", "l", "\"", ":", "\"">>
    \o Escape(physical_str) \o
  <<"\"", "}", "}">>

\* a legacy envelope with entries the formatter has no business with: a
\* sibling of root, further description entries, a second child and a
\* grandchild with request descriptors of their own
LegacyEnvelopeWide(fields_str, request_str) ==
  <<"{", "\"", "s", "t", "a", "t", "u", "s", "\"", ":", "2", "0", "0", ",",
    "\"", "r", "o", "o", "t", "\"", ":", "{", "\"", "n", "a", "m", "e", "\"",
    ":", "\"", "P", "r", "o", "j", "e", "c", "t", "O", "p", "e", "r", "a",
    "t", "o", "r", "\"", ",", "\"", "d", "e", "s", "c", "r", "i", "p", "t",
    "i", "o", "n", "\"", ":", "{", "\"", "f", "i", "e", "l", "d", "s", "\"",
    ":", "\"">>
    \o Escape(fields_str) \o
  <<"\"", ",", "\"", "l", "i", "m", "i", "t", "\"", ":", "5", "}", ",", "\"",
    "c", "h", "i", "l", "d", "r", "e", "n", "\"", ":", "[", "{", "\"", "n",
    "a", "m", "e", "\"", ":", "\"", "O", "p", "e", "n", "S", "e", "a", "r",
    "c", "h", "I", "n", "d", "e", "x", "S", "c", "a", "n", "\"", ",", "\"",
    "d", "e", "s", "c", "r", "i", "p", "t", "i", "o", "n", "\"", ":", "{",
    "\"", "r", "e", "q", "u", "e", "s", "t", "\"", ":", "\"">>
    \o Escape(request_str) \o
  <<"\"", ",", "\"", "i", "n", "d", "e", "x", "\"", ":", "\"", "e", "\"",
    "}", ",", "\"", "c", "h", "i", "l", "d", "r", "e", "n", "\"", ":", "[",
    "{", "\"", "n", "a", "m", "e", "\"", ":", "\"", "N", "\"", ",", "\"",
    "d", "e", "s", "c", "r", "i", "p", "t", "i", "o", "n", "\"", ":", "{",
    "\"", "r", "e", "q", "u", "e", "s", "t", "\"", ":", "\"", "Q", "(", "a",
    "=", "1", ")", "\"", "}", ",", "\"", "c", "h", "i", "l", "d", "r", "e",
    "n", "\"", ":", "[", "]", "}", "]", "}", ",", "{", "\"", "n", "a", "m",
    "e", "\"", ":", "\"", "M", "\"", ",", "\"", "d", "e", "s", "c", "r", "i",
    "p", "t", "i", "o", "n", "\"", ":", "{", "\"", "r", "e", "q", "u", "e",
    "s", "t", "\"", ":", "\"", "Q", "(", "a", "=", "1", ")", "\"", "}", ",",
    "\"", "c", "h", "i", "l", "d", "r", "e", "n", "\"", ":", "[", "]", "}",
    "]", "}", "}">>

\* an optimizer envelope with siblings of calcite, logical and physical
CalciteEnvelopeWide(logical_str, physical_str) ==
  <<"{", "\"", "s", "t", "a", "t", "u", "s", "\"", ":", "2", "0", "0", ",",
    "\"", "c", "a", "l", "c", "i", "t", "e", "\"", ":", "{", "\"", "l", "o",
    "g", "i", "c", "a", "l", "\"", ":", "\"">>
    \o Escape(logical_str) \o
  <<"\"", ",", "\"", "e", "x", "t", "e", "n", "d", "e", "d", "\"", ":", "\"",
    "A", "(", "a", "=", "1", ")", "\"", ",", "\"", "p", "h", "y", "s", "i",
    "c", "a", "l", "\"", ":", "\"">>
    \o Escape(physical_str) \o
  <<"\"", "}", ",", "\"", "t", "o", "o", "k", "\"", ":", "\"", "5", "m", "s",
    "\"", "}">>

TextsOf(F, n) == {Flatten(f) : f \in UNION {[1..k -> F] : k \in 0..n}}

\* request descriptors: any text of the pieces, bare or as Q(text)
Requests ==
  TextsOf(RequestFrags, MaxRequestFrags)
    \cup {<<"Q", "(">> \o r \o <<")">> : r \in TextsOf(RequestFrags, MaxRequestFrags)}

SampleRequests == {<<"Q", "(">> \o r \o <<")">> : r \in RequestFrags} \cup {<<"x">>}

Envelopes ==
  {LegacyEnvelope(f, r) : f \in FieldsStrings, r \in Requests}
    \cup {LegacyEnvelopeWide(f, r) : f \in FieldsStrings, r \in SampleRequests}
    \cup {CalciteEnvelope(l, p) : l, p \in TextsOf(StageFrags, MaxStageFrags)}
    \cup {CalciteEnvelopeWide(l, p) : l, p \in StageFrags}

\* envelopes that lost their last character
Truncated ==
  {SubSeq(e, 1, Len(e) - 1) :
     e \in {LegacyEnvelope(f, <<>>) : f \in FieldsStrings}
             \cup {CalciteEnvelope(<<>>, <<>>)}}

InitExplain ==
  /\ pc = "idle"
  /\ fn = "none"
  /\ content \in Envelopes \cup Truncated
  /\ target = ","
  /\ ret = <<>>
  /\ Quiet

NextExplain == ExplainLegacy \/ ExplainCalcite

SpecExplain == InitExplain /\ [][NextExplain]_vars

(***************************************************************************)
(* The splitter on strings of quotes, backslashes and brackets.            *)
(***************************************************************************)
MaxQuoteLen == 5

QuoteChars == {<<"'">>, <<"\"">>, <<"\\">>, <<"[">>, <<"]">>, <<",">>, <<"a">>}

InitQuote == Pending(QuoteChars, MaxQuoteLen, {","})

NextQuote == SplitRespectingNesting

SpecQuote == InitQuote /\ [][NextQuote]_vars

(***************************************************************************)
(* The classifier on array tokens: [ inner ] for every inner content of    *)
(* at most MaxItemFrags pieces.                                            *)
(***************************************************************************)
MaxItemFrags == 4

ItemFrags ==
  {<<"[">>, <<"]">>, <<",">>, <<" ">>, <<"a">>, <<"-", ">">>,
   <<"[", "a", "-", ">", "a", "]">>, <<"f", "(", "a", "=", "a", ")">>}

InitArrowArray ==
  /\ pc = "idle"
  /\ fn = "none"
  /\ \E inner \in TextsOf(ItemFrags, MaxItemFrags) :
       content = <<"[">> \o inner \o <<"]">>
  /\ target = ","
  /\ ret = <<>>
  /\ Quiet

NextArrowArray == ParseParameterValue

SpecArrowArray == InitArrowArray /\ [][NextArrowArray]_vars

(***************************************************************************)
(* execute_query on every combination of its flags and on the responses a  *)
(* connection can give: texts of at most MaxResponseFrags pieces of error  *)
(* responses, explain envelopes of both engines (whole, cut short, and a   *)
(* legacy envelope whose request names an index calcite), and JDBC results. *)
(***************************************************************************)
MaxResponseFrags == 2

ResponseFrags ==
  {S_InvalidQuery, S_QueryExecutionError, S_IndexNotFound, S_SyntaxCheck,
   S_SyntaxCheck \o <<":", " ", "x">>, S_SemanticCheck,
   S_SemanticCheck \o <<":", " ", "x">>, S_StatementIsNull, <<" ", "x">>,
   K_calcite}

\* Q(indices=calcite)
RequestOnCalcite ==
  <<"Q", "(", "i", "n", "d", "i", "c", "e", "s", "=">> \o K_calcite \o <<")">>

ExplainResponses ==
  {LegacyEnvelope(f, r) : f \in FieldsStrings, r \in SampleRequests \cup {RequestOnCalcite}}
    \cup {CalciteEnvelope(l, p) : l, p \in StageFrags}
    \cup Truncated
    \cup {<<"{", "\"", "p", "l", "a", "n", "\"", ":", "\"", "x", "\"", "}">>}

JdbcResponses ==
  {<<"{", "\"", "s", "c", "h", "e", "m", "a", "\"", ":", "[", "{", "\"", "n",
     "a", "m", "e", "\"", ":", "\"", "a", "\"", "}", "]", ",", "\"", "d",
     "a", "t", "a", "r", "o", "w", "s", "\"", ":", "[", "[", "\"", "1", "\"",
     "]", ",", "[", "n", "u", "l", "l", "]", "]", ",", "\"", "t", "o", "t",
     "a", "l", "\"", ":", "2", ",", "\"", "s", "i", "z", "e", "\"", ":", "2",
     "}">>,
   <<"{", "\"", "s", "c", "h", "e", "m", "a", "\"", ":", "[", "{", "\"", "n",
     "a", "m", "e", "\"", ":", "\"", "a", "\"", ",", "\"", "a", "l", "i",
     "a", "s", "\"", ":", "\"", "b", "\"", "}", ",", "{", "\"", "n", "a",
     "m", "e", "\"", ":", "\"", "c", "\"", "}", "]", ",", "\"", "d", "a",
     "t", "a", "r", "o", "w", "s", "\"", ":", "[", "[", "\"", "1", "\"", "]",
     "]", ",", "\"", "t", "o", "t", "a", "l", "\"", ":", "1", ",", "\"", "s",
     "i", "z", "e", "\"", ":", "1", "}">>,
   <<"{", "\"", "s", "c", "h", "e", "m", "a", "\"", ":", "[", "]", ",", "\"",
     "d", "a", "t", "a", "r", "o", "w", "s", "\"", ":", "[", "]", ",", "\"",
     "s", "i", "z", "e", "\"", ":", "0", "}">>,
   <<"{", "\"", "s", "c", "h", "e", "m", "a", "\"", ":", "[", "]", ",", "\"",
     "d", "a", "t", "a", "r", "o", "w", "s", "\"", ":", "[", "]", ",", "\"",
     "t", "o", "t", "a", "l", "\"", ":", "0", "}">>,
   <<"[", "]">>,
   <<"a", "\n", "1">>}

Responses ==
  TextsOf(ResponseFrags, MaxResponseFrags) \cup ExplainResponses \cup JdbcResponses

Formats == {S_table, <<"C", "S", "V">>, <<"j", "s", "o", "n">>}

InitQuery ==
  /\ pc = "idle"
  /\ fn = "none"
  /\ content \in Responses
  /\ target = ","
  /\ args \in [query : {<<"q">>}, is_ppl_mode : BOOLEAN, is_explain : BOOLEAN,
               format : Formats, is_vertical : BOOLEAN]
  /\ locals = <<>>
  /\ ret = <<>>
  /\ calls = <<>>
  /\ printed = <<>>

NextQuery == ExecuteQuery

SpecQuery == InitQuery /\ [][NextQuery]_vars

(***************************************************************************)
(* The scanner and the parsers step by step, on texts of at most           *)
(* MaxStepFrags pieces.  A call that has started keeps running: the fair   *)
(* specification says so.                                                  *)
(***************************************************************************)
MaxStepFrags == 3

StepFrags ==
  {<<"[">>, <<"]">>, <<",">>, <<"a">>, <<"k", "=">>, <<"f", "(", "a", "=">>,
   <<")">>, <<"-", ">">>, <<"'">>, <<"\n">>}

StepTexts == TextsOf(StepFrags, MaxStepFrags)

StepFunctions ==
  {"split_respecting_nesting", "find_first_unescaped_char",
   "parse_parameter_value", "parse_parameters", "parse_arrow_structure",
   "parse_plan_tree"}

\* a function is about to be called; ret holds what it returns when it finds
\* nothing
InitStep ==
  /\ pc = "idle"
  /\ fn \in StepFunctions
  /\ content = <<>>
  /\ target = ","
  /\ ret = (IF fn = "find_first_unescaped_char" THEN -1 ELSE <<>>)
  /\ Quiet

NextStep ==
  \/ ScanEnter(StepTexts, {",", "a"})
  \/ ScanStart
  \/ ScanIterate
  \/ ScanLeave
  \/ ParserEnter(StepTexts)
  \/ ParserDescend
  \/ ParserLeave

SpecStep == InitStep /\ [][NextStep]_vars

\* where a running call is; every step of NextStep changes it
position == <<pc, locals, calls>>

ScanStep == ScanEnter(StepTexts, {",", "a"}) \/ ScanStart \/ ScanIterate \/ ScanLeave

ParserStep == ParserEnter(StepTexts) \/ ParserDescend \/ ParserLeave

\* ParserStep can be taken exactly when a parser has not returned: the guards
\* of its three actions cover pc = "idle" and pc = "running" with and without
\* waiting calls
ParserStepEnabled == ~ScanMode /\ pc \in {"idle", "running"}

\* weak fairness of the two kinds of step: the interpreter runs a call that
\* has started until it returns.  For ParserStep the condition is written
\* out with ParserStepEnabled in the place of ENABLED <<ParserStep>>_position.
SpecStepFair ==
  /\ SpecStep
  /\ WF_position(ScanStep)
  /\ (<>[]ParserStepEnabled => []<><<ParserStep>>_position)

(***************************************************************************)
(* The parameter-list parser on lists of at most MaxKeyFrags pieces in     *)
(* which keys repeat.                                                      *)
(***************************************************************************)
MaxKeyFrags == 5

KeyFrags ==
  {<<"a", "=", "1">>, <<"b">>, <<"a", "=", "[", "2", "]">>, <<"b", "=", "3">>,
   <<",">>, <<" ">>}

InitKeys == Pending(KeyFrags, MaxKeyFrags, {","})

NextKeys == ParseParameters

SpecKeys == InitKeys /\ [][NextKeys]_vars

(***************************************************************************)
(* The optimizer formatter called twice, on envelopes whose two plan texts *)
(* have at most MaxTwiceFrags pieces each.                                 *)
(***************************************************************************)
MaxTwiceFrags == 1

TwiceFrags == {<<"A", "(", "a", "=", "1", ")", "\n">>, <<"B", "(", ")">>, <<"x">>}

TwiceEnvelopes ==
  {CalciteEnvelope(l, p) : l, p \in TextsOf(TwiceFrags, MaxTwiceFrags)}

InitTwice ==
  /\ pc = "idle"
  /\ fn = "none"
  /\ content \in TwiceEnvelopes
  /\ target = ","
  /\ ret = <<>>
  /\ Quiet

NextTwice == ExplainCalcite \/ CallAgain(TwiceEnvelopes)

SpecTwice == InitTwice /\ [][NextTwice]_vars

(***************************************************************************)
(* built from at most MaxLegacyFrags pieces: commas with and without a     *)
(* space, inside a quoted value and, for a sourceBuilder, inside its JSON. *)
(***************************************************************************)
MaxLegacyFrags == 3

LegacyFrags ==
  {<<"a", "=", "1">>, <<",", " ">>, <<",">>, <<"x">>,
   <<"b", "=", "'", "x">>, <<"y", "=", "2", "'">>}

\* sourceBuilder={"q":"x<between>y=1"}
SourceBuilderWith(between) ==
  <<"s", "o", "u", "r", "c", "e", "B", "u", "i", "l", "d", "e", "r", "=",
    "{", "\"", "q", "\"", ":", "\"", "x">>
    \o between \o <<"y", "=", "1", "\"", "}">>

LegacyRequests ==
  {<<"Q", "(">> \o r \o <<")">> :
     r \in TextsOf(LegacyFrags, MaxLegacyFrags)
             \cup {SourceBuilderWith(b) : b \in TextsOf(LegacyFrags, 1)}}

\* a legacy envelope with nothing but the two entries the formatter reads
LegacyEnvelopeBare(request_str) ==
  <<"{", "\"", "r", "o", "o", "t", "\"", ":", "{", "\"", "d", "e", "s", "c",
    "r", "i", "p", "t", "i", "o", "n", "\"", ":", "{", "\"", "f", "i", "e",
    "l", "d", "s", "\"", ":", "\"", "[", "a", "]", "\"", "}", ",", "\"", "c",
    "h", "i", "l", "d", "r", "e", "n", "\"", ":", "[", "{", "\"", "d", "e",
    "s", "c", "r", "i", "p", "t", "i", "o", "n", "\"", ":", "{", "\"", "r",
    "e", "q", "u", "e", "s", "t", "\"", ":", "\"">>
    \o Escape(request_str) \o
  <<"\"", "}", "}", "]", "}", "}">>

InitLegacy ==
  /\ pc = "idle"
  /\ fn = "none"
  /\ content \in {LegacyEnvelopeBare(r) : r \in LegacyRequests}
  /\ target = ","
  /\ ret = <<>>
  /\ Quiet

NextLegacy == ExplainLegacy

SpecLegacy == InitLegacy /\ [][NextLegacy]_vars

(***************************************************************************)
(* What the splitter is claimed to compute, stated from the text alone:    *)
(* the quote that is open and the three depths in front of a position.     *)
(***************************************************************************)
\* the quote character open after the first n characters of s ("" when none)
RECURSIVE OpenQuote(_, _)
OpenQuote(s, n) ==
  IF n = 0 THEN ""
  ELSE LET q == OpenQuote(s, n - 1)
       IN  IF q = "" THEN (IF s[n] \in {"\"", "'"} THEN s[n] ELSE "")
           ELSE IF s[n] = q THEN "" ELSE q

\* occurrences of c in front of position i that lie outside quoted literals
CountOutside(s, i, c) ==
  Cardinality({j \in 1..(i - 1) : s[j] = c /\ OpenQuote(s, j - 1) = ""})

DepthAt(s, i, open, close) == CountOutside(s, i, open) - CountOutside(s, i, close)

\* position i is at depth zero and outside a quoted literal
TopLevelAt(s, i) ==
  /\ OpenQuote(s, i - 1) = ""
  /\ DepthAt(s, i, "[", "]") = 0
  /\ DepthAt(s, i, "(", ")") = 0
  /\ DepthAt(s, i, "{", "}") = 0

TopLevelOccurrences(s, c) == {i \in 1..Len(s) : s[i] = c /\ TopLevelAt(s, i)}

\* the trimmed, non-empty pieces of s between the positions of P, in order
RECURSIVE PiecesFrom(_, _, _)
PiecesFrom(s, P, from) ==
  LET later == {i \in P : i >= from}
      to    == IF later = {} THEN Len(s) + 1 ELSE MinOf(later)
      piece == Strip(SubSeq(s, from, to - 1))
      rest  == IF later = {} THEN <<>> ELSE PiecesFrom(s, P, to + 1)
  IN  IF piece = <<>> THEN rest ELSE <<piece>> \o rest

Pieces(s, P) == PiecesFrom(s, P, 1)

NestingChars == {"[", "]", "(", ")", "{", "}", "\"", "'"}

Split == pc = "returned" /\ fn = "split_respecting_nesting"

\* C1 as stated: for every separator the elements are the pieces between the
\* occurrences of the separator at depth zero outside quotes.
C1_AnySeparator == Split => ret = Pieces(content, TopLevelOccurrences(content, target))

\* C1: for every separator that is no bracket, parenthesis, brace or quote
\* character, split_respecting_nesting splits at exactly the occurrences of the
\* separator at which all three depths are zero and no quote is open; every
\* other occurrence stays verbatim inside one returned element.
C1_SplitsAtTopLevelOnly ==
  (Split /\ target \notin NestingChars)
    => ret = Pieces(content, TopLevelOccurrences(content, target))

\* a split point and a protected separator in the same content
C1_Witness ==
  /\ Split
  /\ target = ","
  /\ TopLevelOccurrences(content, ",") # {}
  /\ \E i \in 1..Len(content) :
       /\ content[i] = ","
       /\ ~TopLevelAt(content, i)
       /\ \E e \in 1..Len(ret) : HasChar(ret[e], ",")

(***************************************************************************)
(* Claims about parse_parameters.                                          *)
(***************************************************************************)
Params == pc = "returned" /\ fn = "parse_parameters"

\* the top-level comma-separated parts of a parameter list
TopParts(s) == Pieces(s, TopLevelOccurrences(s, ","))

TopEq(part) == TopLevelOccurrences(part, "=")

\* the entry a key=value part split at position m stands for
KeyValueEntry(part, m) ==
  [key   |-> Strip(SubSeq(part, 1, m - 1)),
   value |-> ParamValue(Strip(SubSeq(part, m + 1, Len(part))))]

FlagEntry(part) == [key |-> part, value |-> PyTrue]

\* C3 as stated: a part is split at its first top-level '=' wherever that is
EntryAsStated(part) ==
  IF TopEq(part) = {} THEN FlagEntry(part)
  ELSE KeyValueEntry(part, MinOf(TopEq(part)))

\* a part whose first top-level '=' is its first character is a flag as well
EntryOf(part) ==
  IF TopEq(part) = {} \/ MinOf(TopEq(part)) = 1 THEN FlagEntry(part)
  ELSE KeyValueEntry(part, MinOf(TopEq(part)))

\* every part's entry is in the mapping unless a later part has the same key,
\* and the mapping has no other key
HoldsEntries(d, E) ==
  /\ d.tag = "dict"
  /\ \A i \in 1..Len(E) :
       (\A j \in (i + 1)..Len(E) : E[j].key # E[i].key)
         => HasKey(d, E[i].key) /\ DictGet(d, E[i].key) = E[i].value
  /\ \A k \in 1..Len(d.keys) : \E i \in 1..Len(E) : E[i].key = d.keys[k]

C3_SplitAtAnyPosition ==
  Params =>
    LET parts == TopParts(content)
    IN  HoldsEntries(ret, [i \in 1..Len(parts) |-> EntryAsStated(parts[i])])

\* C3: every top-level part with no '=' at depth zero outside quotes, or whose
\* first such '=' is its first character, is stored as a flag (key = the part,
\* value true); every other part is split at its first such '=' into the
\* trimmed key and the classified trimmed value.
C3_FlagOrKeyValue ==
  Params =>
    LET parts == TopParts(content)
    IN  HoldsEntries(ret, [i \in 1..Len(parts) |-> EntryOf(parts[i])])

\* a flag, a part that starts with '=' and a key=value part in one list
C3_Witness ==
  /\ Params
  /\ \E p \in 1..Len(TopParts(content)) :
       TopEq(TopParts(content)[p]) # {} /\ MinOf(TopEq(TopParts(content)[p])) = 1
  /\ \E p \in 1..Len(TopParts(content)) :
       TopEq(TopParts(content)[p]) # {} /\ MinOf(TopEq(TopParts(content)[p])) > 1
  /\ Len(ret.keys) >= 2
  /\ \E k \in 1..Len(ret.keys) : ret.items[k] = PyTrue /\ HasChar(ret.keys[k], "=")

\* the brace-delimited value of a key=value part ("" for any other part)
BraceValue(part) ==
  IF TopEq(part) = {} \/ MinOf(TopEq(part)) = 1 THEN <<>>
  ELSE LET value == Strip(SubSeq(part, MinOf(TopEq(part)) + 1, Len(part)))
       IN  IF StartsWith(value, "{") /\ EndsWith(value, "}") THEN value ELSE <<>>

\* C10: a value that starts with '{' and ends with '}' is stored decoded when
\* json.loads succeeds and as the raw string when it fails; no exception is
\* raised and every other part of the list still has its entry.
C10_JsonValueOrRawFallback ==
  Params =>
    LET parts == TopParts(content)
        E     == [i \in 1..Len(parts) |-> EntryOf(parts[i])]
    IN  /\ ret.tag = "dict"
        /\ \A i \in 1..Len(parts) : HasKey(ret, E[i].key)
        /\ \A i \in 1..Len(parts) :
             (/\ BraceValue(parts[i]) # <<>>
              /\ \A j \in (i + 1)..Len(parts) : E[j].key # E[i].key)
               => DictGet(ret, E[i].key) =
                    IF JsonLoads(BraceValue(parts[i])).ok
                      THEN JsonLoads(BraceValue(parts[i])).v
                      ELSE Str(BraceValue(parts[i]))

\* a value that fails to decode next to another parameter
C10_Witness ==
  /\ Params
  /\ Len(ret.keys) = 2
  /\ \E i \in 1..Len(TopParts(content)) :
       /\ BraceValue(TopParts(content)[i]) # <<>>
       /\ ~JsonLoads(BraceValue(TopParts(content)[i])).ok
       /\ ret.items[i] = Str(BraceValue(TopParts(content)[i]))

(***************************************************************************)
(* Claims about parse_parameter_value.                                     *)
(***************************************************************************)
Classified == pc = "returned" /\ fn = "parse_parameter_value"

\* C7 as stated: the classifier decodes an embedded JSON object
C7_ClassifierDecodesJson ==
  (Classified /\ content = JsonFrom0)
    => ret = Dict(<<<<"f", "r", "o", "m">>>>, <<Num(<<"0">>)>>)

\* C7: parse_parameter_value returns a brace-delimited JSON object such as
\* {"from":0} unchanged as a string; the decoded mapping {"from": 0} is what
\* parse_parameters stores for a part key={"from":0}.
C7_JsonDecodedByParameterList ==
  /\ (Classified /\ IsJsonShaped(Strip(content)) /\ JsonLoads(Strip(content)).ok)
       => ret = Str(Strip(content))
  /\ (Params /\ content = <<"k", "=">> \o JsonFrom0)
       => ret = Dict(<<<<"k">>>>,
                     <<Dict(<<<<"f", "r", "o", "m">>>>, <<Num(<<"0">>)>>)>>)

C7_Witness ==
  \/ Classified /\ content = JsonFrom0 /\ ret = Str(JsonFrom0)
  \/ Params /\ content = <<"k", "=">> \o JsonFrom0 /\ ret.items[1].tag = "dict"

\* a token of shape name(...): a name of word characters, '(' and a final ')'
IsCallShaped(v) ==
  /\ HasChar(v, "(")
  /\ EndsWith(v, ")")
  /\ FindChar(v, "(") >= 1
  /\ \A i \in 1..FindChar(v, "(") : v[i] \in WordChars

CallName(v) == SubSeq(v, 1, FindChar(v, "("))

\* the text between the first '(' and the final ')'
CallInterior(v) == SubSeq(v, FindChar(v, "(") + 2, Len(v) - 1)

\* C4: a token name(...) is a nested call {name: parse_parameters(interior)}
\* if and only if its interior holds a '=' at depth zero outside quotes, and is
\* returned unchanged as a string otherwise.
C4_CallIffTopLevelEq ==
  (Classified /\ IsCallShaped(Strip(content)))
    => LET v == Strip(content)
       IN  IF TopEq(CallInterior(v)) # {}
             THEN ret = Dict(<<CallName(v)>>, <<parse_parameters(CallInterior(v))>>)
             ELSE ret = Str(v)

\* an array token: bracket-wrapped, its trimmed inner content neither empty
\* nor exactly {}
IsArrayToken(v) ==
  /\ StartsWith(v, "[") /\ EndsWith(v, "]")
  /\ Strip(Inner(v)) # <<>>
  /\ Strip(Inner(v)) # <<"{", "}">>

ArrowPositions(s) == {i \in 1..(Len(s) - 1) : s[i] = "-" /\ s[i + 1] = ">"}

Wrapped(e) == StartsWith(e, "[") /\ EndsWith(e, "]")

\* raw token when no top-level element is bracket-wrapped, classified list
\* otherwise
SimpleOrList(v, r) ==
  LET elems == TopParts(Strip(Inner(v)))
  IN  IF \A i \in 1..Len(elems) : ~Wrapped(elems[i])
        THEN r = Str(v)
        ELSE r = List([i \in 1..Len(elems) |-> parse_parameter_value(elems[i])])

\* C5 as stated: the two outcomes for every array token to which neither
\* arrow rule applies
C5_NeitherArrowRule ==
  (Classified /\ IsArrayToken(Strip(content)))
    => LET v     == Strip(content)
           inner == Strip(Inner(v))
           elems == TopParts(inner)
       IN  (/\ ~(ArrowPositions(inner) # {} /\ ~StartsWith(inner, "["))
            /\ ~\E i \in 1..Len(elems) :
                  Wrapped(elems[i]) /\ ArrowPositions(elems[i]) # {})
             => SimpleOrList(v, ret)

\* C5: for an array token whose inner content is non-empty, is not exactly {}
\* and contains no "->", the result is the raw token when no top-level element
\* is bracket-wrapped and the list of the classified elements otherwise.
C5_SimpleArrayStaysRaw ==
  (Classified /\ IsArrayToken(Strip(content)))
    => (ArrowPositions(Strip(Inner(Strip(content)))) = {}
          => SimpleOrList(Strip(content), ret))

\* both outcomes need an array of several elements
C5_Witness ==
  /\ Classified
  /\ IsArrayToken(Strip(content))
  /\ ArrowPositions(content) = {}
  /\ Len(TopParts(Strip(Inner(Strip(content))))) >= 2
  /\ ret.tag = "list"
  /\ \E i \in 1..Len(ret.items) : ret.items[i].tag = "str"

(***************************************************************************)
(* Claims about parse_arrow_structure.                                     *)
(***************************************************************************)
ArrowParsed == pc = "returned" /\ fn = "parse_arrow_structure"

\* the mapping for content split at the arrow at position a
ArrowMapping(s, a) ==
  LET key  == Strip(SubSeq(s, 1, a - 1)) \o <<"-", ">">>
      rest == Strip(SubSeq(s, a + 2, Len(s)))
  IN  IF Wrapped(rest)
        THEN Dict(<<key>>, <<StrList(TopParts(Inner(rest)))>>)
        ELSE Dict(<<key>>, <<Str(rest)>>)

\* C6 as stated: a mapping whenever the content contains "->"
C6_MappingWheneverArrow ==
  ArrowParsed =>
    IF ArrowPositions(content) # {}
      THEN ret = ArrowMapping(content, MinOf(ArrowPositions(content)))
      ELSE ret = Str(content)

\* C6: when the first "->" of the content is not at its very start the result
\* is the one-key mapping from the trimmed text before it plus "->" to the
\* list of trimmed top-level elements (bracket-wrapped rest) or to the trimmed
\* rest; content without "->", or starting with "->", is returned unchanged.
C6_MappingUnlessLeadingArrow ==
  ArrowParsed =>
    IF ArrowPositions(content) # {} /\ MinOf(ArrowPositions(content)) > 1
      THEN ret = ArrowMapping(content, MinOf(ArrowPositions(content)))
      ELSE ret = Str(content)

\* PROJECT->[a, a]-like content
C6_Witness ==
  /\ ArrowParsed
  /\ ArrowPositions(content) # {}
  /\ ret.tag = "dict"
  /\ ret.items[1].tag = "list"
  /\ Len(ret.items[1].items) = 2

(***************************************************************************)
(* Claims about parse_plan_tree.                                           *)
(***************************************************************************)
PlanParsed == pc = "returned" /\ fn = "parse_plan_tree"

\* the trimmed non-blank lines of shape Name(Params), in order
OperatorLines(s) ==
  SelectSeq(Pieces(s, {i \in 1..Len(s) : s[i] = "\n"}), IsCallShaped)

FirstLineOf(ops, name) == MinOf({i \in 1..Len(ops) : CallName(ops[i]) = name})

LastLineOf(ops, name) == MaxOf({i \in 1..Len(ops) : CallName(ops[i]) = name})

\* C2: the keys of the mapping are the operator names in the order of their
\* first lines, each once; the value of a name is the parsed parameters of its
\* last line; the fixture's logical plan gives LogicalProject then
\* CalciteLogicalIndexScan.
C2_FirstLineOrderLastLineValue ==
  PlanParsed =>
    LET ops == OperatorLines(content)
    IN  /\ ret.tag = "dict"
        /\ {ret.keys[k] : k \in 1..Len(ret.keys)}
             = {CallName(ops[i]) : i \in 1..Len(ops)}
        /\ \A k1, k2 \in 1..Len(ret.keys) :
             k1 < k2 => FirstLineOf(ops, ret.keys[k1]) < FirstLineOf(ops, ret.keys[k2])
        /\ \A k \in 1..Len(ret.keys) :
             ret.items[k]
               = parse_parameters(CallInterior(ops[LastLineOf(ops, ret.keys[k])]))
        /\ content = MockCalciteLogical
             => ret.keys = << <<"L", "o", "g", "i", "c", "a", "l",
                                "P", "r", "o", "j", "e", "c", "t">>,
                              <<"C", "a", "l", "c", "i", "t", "e",
                                "L", "o", "g", "i", "c", "a", "l",
                                "I", "n", "d", "e", "x", "S", "c", "a", "n">> >>

\* an operator named again, with other parameters, after a different operator
C2_Witness ==
  /\ PlanParsed
  /\ LET ops == OperatorLines(content)
     IN  /\ Len(ops) = 3
         /\ CallName(ops[1]) = CallName(ops[3])
         /\ CallName(ops[1]) # CallName(ops[2])
         /\ CallInterior(ops[1]) # CallInterior(ops[3])
  /\ Len(ret.keys) = 2

(***************************************************************************)
(* Claims about explain_legacy and explain_calcite.                        *)
(***************************************************************************)
Explained(name) == pc # "idle" /\ fn = name

\* the envelope decodes and holds strings at both paths
HasShape(text, path1, path2) ==
  /\ JsonLoads(text).ok
  /\ GetPath(JsonLoads(text).v, path1).tag = "str"
  /\ GetPath(JsonLoads(text).v, path2).tag = "str"

\* C8: an envelope that decodes and has the legacy shape (fields and request
\* strings), or the optimizer shape (logical and physical strings), is
\* formatted without an exception, whatever those strings hold.
C8_OnlyEnvelopeDecodeFails ==
  /\ (Explained("explain_legacy") /\ HasShape(content, FieldsPath, RequestPath))
       => pc = "returned"
  /\ (Explained("explain_calcite") /\ HasShape(content, LogicalPath, PhysicalPath))
       => pc = "returned"

\* the parts of the request descriptor of a legacy envelope
RequestParts(text) ==
  LET request_str == GetPath(JsonLoads(text).v, RequestPath).s
      inner       == RequestMatch(request_str).params
  IN  IF RequestMatch(request_str).matched
        THEN SplitParts(inner, LookaheadSplits(inner), 1)
        ELSE <<>>

IsKeyValue(part) == HasChar(part, "=")

PartKey(part) == Slice(part, 0, FindChar(part, "="))

PartValue(part) == Slice(part, FindChar(part, "=") + 1, Len(part))

\* C9: when every part of the request is key=value and the sourceBuilder
\* value is not valid JSON, explain_legacy raises nothing and keeps the value
\* as its raw text in the structured request.
C9_SourceBuilderFailureCaught ==
  (/\ Explained("explain_legacy")
   /\ HasShape(content, FieldsPath, RequestPath)
   /\ \A i \in 1..Len(RequestParts(content)) : IsKeyValue(RequestParts(content)[i])
   /\ \E i \in 1..Len(RequestParts(content)) :
        /\ PartKey(RequestParts(content)[i]) = K_sourceBuilder
        /\ ~JsonLoads(PartValue(RequestParts(content)[i])).ok)
    => /\ pc = "returned"
       /\ LET request == GetPath(JsonLoads(ret.s).v, RequestPath)
          IN  \E i \in 1..Len(RequestParts(content)) :
                /\ PartKey(RequestParts(content)[i]) = K_sourceBuilder
                /\ DictGet(request.items[1], K_sourceBuilder)
                     = Str(PartValue(RequestParts(content)[i]))

(***************************************************************************)
(* Further claims about the scanner.                                       *)
(***************************************************************************)
Closer(c) == CASE c = "[" -> "]" [] c = "(" -> ")" [] OTHER -> "}"

\* position p holds, outside quotes, an opener whose own depth never comes
\* back to the level in front of it: no later closer matches it
UnmatchedOpener(s, p) ==
  /\ s[p] \in {"[", "(", "{"}
  /\ OpenQuote(s, p - 1) = ""
  /\ \A q \in (p + 1)..(Len(s) + 1) :
       DepthAt(s, q, s[p], Closer(s[p])) - DepthAt(s, p, s[p], Closer(s[p])) >= 1

\* C11: when the content holds, outside quotes, an opener without a matching
\* closer, the call returns, no separator after the opener splits, and the
\* text from the last split point in front of the opener to the end of the
\* string is the final element, also when a stray closer precedes the opener.
C11_UnmatchedOpenerEndsSplitting ==
  \A p \in 1..Len(content) :
    (Split /\ UnmatchedOpener(content, p))
      => /\ ret # <<>>
         /\ \E from \in 1..p :
              /\ from = 1 \/ content[from - 1] = target
              /\ ret[Len(ret)] = Strip(SubSeq(content, from, Len(content)))


Find == pc = "returned" /\ fn = "find_first_unescaped_char"

\* C15: for every target that is no bracket, parenthesis, brace, quote or
\* whitespace character, find_first_unescaped_char returns the smallest
\* 0-based index that holds the target with all three depths zero and no
\* quote open in front of it, and -1 exactly when there is no such index.
C15_FirstTopLevelIndex ==
  (Find /\ target \notin NestingChars \cup Whitespace)
    => ret = IF TopLevelOccurrences(content, target) = {} THEN -1
             ELSE MinOf(TopLevelOccurrences(content, target)) - 1

\* the target is found behind an occurrence that nesting protects
C15_Witness ==
  /\ Find
  /\ target = ","
  /\ ret >= 1
  /\ \E i \in 1..ret : content[i] = ","

\* the untrimmed pieces of s between the positions of P, empty ones included
RECURSIVE RawPiecesFrom(_, _, _)
RawPiecesFrom(s, P, from) ==
  LET later == {i \in P : i >= from}
  IN  IF later = {} THEN <<SubSeq(s, from, Len(s))>>
      ELSE <<SubSeq(s, from, MinOf(later) - 1)>>
             \o RawPiecesFrom(s, P, MinOf(later) + 1)

StripEach(pieces) == [i \in 1..Len(pieces) |-> Strip(pieces[i])]

\* sep.join(elems)
RECURSIVE Join(_, _)
Join(elems, sep) ==
  IF elems = <<>> THEN <<>>
  ELSE IF Len(elems) = 1 THEN elems[1]
  ELSE elems[1] \o <<sep>> \o Join(Tail(elems), sep)

\* the positions at which the splitter cuts: the top-level occurrences of a
\* separator that is no nesting character
SplitPoints(s, sep) ==
  IF sep \in NestingChars THEN {} ELSE TopLevelOccurrences(s, sep)

\* C16 as stated: the joined elements are the content with nothing but the
\* whitespace around its split points and at its two ends removed.
C16_JoinRecoversContent ==
  Split => Join(ret, target)
             = Join(StripEach(RawPiecesFrom(content, SplitPoints(content, target), 1)),
                    target)

\* C16: the joined elements are the content with the whitespace around its
\* split points and at its two ends removed and with every empty or
\* whitespace-only piece between split points dropped with one separator.
C16_JoinRecoversNonBlankPieces ==
  Split => Join(ret, target)
             = Join(Pieces(content, SplitPoints(content, target)), target)

\* two elements whose join is shorter than the content by trimmed whitespace
C16_Witness ==
  /\ Split
  /\ target = ","
  /\ Len(ret) = 2
  /\ Len(Join(ret, target)) < Len(content)
  /\ \A i \in 1..2 :
       StripEach(RawPiecesFrom(content, SplitPoints(content, target), 1))[i] # <<>>

\* the elements from the k-th on occur in s from position from on, in order
\* and without overlap
RECURSIVE InSourceOrder(_, _, _, _)
InSourceOrder(elems, k, s, from) ==
  \/ k > Len(elems)
  \/ \E a \in from..(Len(s) - Len(elems[k]) + 1) :
       /\ SubSeq(s, a, a + Len(elems[k]) - 1) = elems[k]
       /\ InSourceOrder(elems, k + 1, s, a + Len(elems[k]))

\* C18: every element of a split is non-empty, starts and ends with a
\* character that is no whitespace, and the elements lie in the content
\* in order; blank content gives the empty list, and -1 in find mode.
C18_TrimmedNonEmptyInOrder ==
  /\ Split => /\ \A e \in 1..Len(ret) :
                   /\ ret[e] # <<>>
                   /\ ~IsSpace(ret[e][1])
                   /\ ~IsSpace(ret[e][Len(ret[e])])
              /\ InSourceOrder(ret, 1, content, 1)
  /\ (Split /\ Strip(content) = <<>>) => ret = <<>>
  /\ (Find /\ Strip(content) = <<>>) => ret = -1

\* two elements in order, with whitespace trimmed next to the split point
C18_Witness ==
  /\ Split
  /\ target = ","
  /\ Len(ret) = 2
  /\ Cardinality(SplitPoints(content, target)) = 1
  /\ Len(ret[1]) + Len(ret[2]) + 1 < Len(content)


\* C17: in front of every position of the scan the open quote is the one the
\* text determines when a literal is closed only by its own quote character
\* and opened at any depth, and each depth counts the brackets outside
\* literals only: inside a literal the other quote, backslashes and brackets
\* change nothing; and the returned elements are cut at exactly the commas
\* that this quote state and these depths leave at top level.
C17_LiteralClosedBySameQuoteOnly ==
  (Split /\ target = ",") =>
    /\ \A n \in 0..Len(content) :
         LET st == ScanAfter(content, target, n)
         IN  /\ st.quote_char = OpenQuote(content, n)
             /\ st.in_quotes = (OpenQuote(content, n) # "")
             /\ st.bracket_depth = DepthAt(content, n + 1, "[", "]")
             /\ st.paren_depth = DepthAt(content, n + 1, "(", ")")
             /\ st.brace_depth = DepthAt(content, n + 1, "{", "}")
    /\ ret = Pieces(content,
                    {i \in 1..Len(content) :
                       /\ content[i] = ","
                       /\ ~ScanAfter(content, target, i - 1).in_quotes
                       /\ ScanAfter(content, target, i - 1).bracket_depth = 0
                       /\ ScanAfter(content, target, i - 1).paren_depth = 0
                       /\ ScanAfter(content, target, i - 1).brace_depth = 0})

\* a literal that holds the other quote, a backslash or a bracket is closed
\* by its own quote character, and the separator behind it splits
C17_Witness ==
  /\ Split
  /\ Len(ret) = 2
  /\ \E i, j, k \in 1..Len(content) :
       /\ i < j /\ j < k
       /\ OpenQuote(content, i - 1) = ""
       /\ content[i] = "'"
       /\ content[j] \in {"\"", "\\", "["}
       /\ \A m \in i..(k - 1) : OpenQuote(content, m) = "'"
       /\ content[k] = "'"
       /\ k < Len(content) /\ content[k + 1] = ","


(***************************************************************************)
(* Further claims about parse_parameter_value.                             *)
(***************************************************************************)
\* the text between the first and the last character of a token of two or
\* more characters that starts with [ and ends with ]
Between(v) == SubSeq(v, 2, Len(v) - 1)

BracketPair(v) == Len(v) >= 2 /\ v[1] = "[" /\ v[Len(v)] = "]"

\* C19: on a trimmed token the result is the empty array exactly when the
\* token is [, optional whitespace and a closing ], and the array of one
\* empty mapping exactly when the token is bracket-wrapped around text that
\* trims to {}; the single character [ gives neither.
C19_EmptyArrayAndEmptyMapping ==
  Classified =>
    LET v == Strip(content)
    IN  /\ (ret = List(<<>>))
             <=> (BracketPair(v) /\ \A i \in 2..(Len(v) - 1) : IsSpace(v[i]))
        /\ (ret = List(<<EmptyDict>>))
             <=> (BracketPair(v) /\ Strip(Between(v)) = <<"{", "}">>)

\* [{}] from a token with whitespace inside the brackets
C19_Witness ==
  /\ Classified
  /\ ret = List(<<EmptyDict>>)
  /\ \E i \in 2..(Len(content) - 1) : IsSpace(content[i])


\* what an element of an array with "->" becomes
ArrowElement(e) ==
  IF Wrapped(e) /\ ArrowPositions(e) # {}
    THEN parse_arrow_structure(Strip(Between(e)))
    ELSE parse_parameter_value(e)

\* C20: for an array token whose inner content contains "->": when the inner
\* content does not start with [ the result is parse_arrow_structure of the
\* whole inner content; otherwise it is the list with one entry per top-level
\* comma-separated element, in order, arrow-parsed after unwrapping when the
\* element is bracket-wrapped and contains "->" and classified otherwise.
C20_ArrowArrayElements ==
  (Classified /\ IsArrayToken(Strip(content))
     /\ ArrowPositions(Strip(Inner(Strip(content)))) # {})
    => LET inner == Strip(Inner(Strip(content)))
           elems == TopParts(inner)
       IN  IF inner[1] # "["
             THEN ret = parse_arrow_structure(inner)
             ELSE ret = List([i \in 1..Len(elems) |-> ArrowElement(elems[i])])

\* an arrow-parsed element followed by a classified one
C20_Witness ==
  /\ Classified
  /\ IsArrayToken(Strip(content))
  /\ ret.tag = "list"
  /\ Len(ret.items) = 2
  /\ ret.items[1].tag = "dict"
  /\ ret.items[1].keys = <<<<"a", "-", ">">>>>
  /\ ret.items[2].tag \in {"str", "dict"}
  /\ ret.items[2].keys # <<<<"a", "-", ">">>>>


(***************************************************************************)
(* Further claims about explain_legacy and explain_calcite.                *)
(***************************************************************************)
Formatted(name) == pc = "returned" /\ fn = name

\* the value at a path of a JSON text
At(text, path) == GetPath(JsonLoads(text).v, path)

\* formatting text again raises nothing and leaves both values as they are
Unchanged(again, text, path1, path2) ==
  /\ ~IsExc(again)
  /\ At(again.s, path1) = At(text, path1)
  /\ At(again.s, path2) = At(text, path2)

\* C12: explain_legacy applied to its own output completes and leaves the
\* structured fields and request as they are, and explain_calcite applied to
\* its own output completes and leaves the structured logical and physical
\* plans as they are.
C12_IdempotentOnOwnOutput ==
  /\ Formatted("explain_legacy")
       => Unchanged(explain_legacy(ret.s), ret.s, FieldsPath, RequestPath)
  /\ Formatted("explain_calcite")
       => Unchanged(explain_calcite(ret.s), ret.s, LogicalPath, PhysicalPath)

\* a and b are the same value everywhere but at the paths of P
RECURSIVE SameExcept(_, _, _)
SameExcept(a, b, P) ==
  IF <<>> \in P THEN TRUE
  ELSE IF a.tag # b.tag THEN FALSE
  ELSE IF a.tag = "dict"
    THEN /\ a.keys = b.keys
         /\ \A i \in 1..Len(a.keys) :
              SameExcept(a.items[i], b.items[i],
                         {Tail(p) : p \in {q \in P : Head(q) = Key(a.keys[i])}})
  ELSE IF a.tag = "list"
    THEN /\ Len(a.items) = Len(b.items)
         /\ \A i \in 1..Len(a.items) :
              SameExcept(a.items[i], b.items[i],
                         {Tail(p) : p \in {q \in P : Head(q) = Index0 /\ i = 1}})
  ELSE a = b

\* C13: the output of explain_legacy is the decoded envelope everywhere but
\* at root.description.fields and root.children[0].description.request, and
\* the output of explain_calcite is the decoded envelope everywhere but at
\* calcite.logical and calcite.physical.
C13_OnlyPlanFieldsChange ==
  /\ Formatted("explain_legacy")
       => SameExcept(JsonLoads(content).v, JsonLoads(ret.s).v,
                     {FieldsPath, RequestPath})
  /\ Formatted("explain_calcite")
       => SameExcept(JsonLoads(content).v, JsonLoads(ret.s).v,
                     {LogicalPath, PhysicalPath})

\* an envelope with a sibling of root, a second child and a grandchild, whose
\* request became a mapping
C13_Witness ==
  /\ Formatted("explain_legacy")
  /\ HasKey(JsonLoads(content).v, <<"s", "t", "a", "t", "u", "s">>)
  /\ At(ret.s, RequestPath).tag = "dict"
  /\ At(ret.s, RequestPath) # At(content, RequestPath)

\* the request descriptor of a legacy envelope is Type(part, part, ...) up to
\* its last character, every part is key=value, and a sourceBuilder value is
\* JSON
DescriptorShape(text) ==
  /\ HasShape(text, FieldsPath, RequestPath)
  /\ LET r == At(text, RequestPath).s
     IN  /\ RequestMatch(r).matched
         /\ r[Len(r)] = ")"
         /\ \A i \in 1..Len(RequestParts(text)) :
              /\ IsKeyValue(RequestParts(text)[i])
              /\ PartKey(RequestParts(text)[i]) = K_sourceBuilder
                   => JsonLoads(PartValue(RequestParts(text)[i])).ok

\* the value a part stands for
PartEntry(part) ==
  IF PartKey(part) = K_sourceBuilder THEN JsonLoads(PartValue(part)).v
  ELSE Str(PartValue(part))

\* the indices of S in increasing order
RECURSIVE Ascending(_)
Ascending(S) == IF S = {} THEN <<>> ELSE <<MinOf(S)>> \o Ascending(S \ {MinOf(S)})

\* the mapping of the parts: each key where it first occurs, with the value
\* of its last occurrence
MappingOf(parts) ==
  LET first == Ascending({i \in 1..Len(parts) :
                            \A j \in 1..(i - 1) : PartKey(parts[j]) # PartKey(parts[i])})
      last(i) == MaxOf({j \in 1..Len(parts) : PartKey(parts[j]) = PartKey(parts[i])})
  IN  Dict([n \in 1..Len(first) |-> PartKey(parts[first[n]])],
           [n \in 1..Len(first) |-> PartEntry(parts[last(first[n])])])

\* C14: for a request descriptor Type(k1=v1, k2=v2, ...) explain_legacy puts
\* the one-key mapping {Type: {k1: v1, k2: v2, ...}} in its place, keys in
\* descriptor order, each key the text before the first = of its part, the
\* sourceBuilder value decoded from JSON and every other value the raw text
\* after the first =.
C14_RequestBecomesMapping ==
  (Explained("explain_legacy") /\ DescriptorShape(content))
    => /\ pc = "returned"
       /\ At(ret.s, RequestPath)
            = Dict(<<RequestMatch(At(content, RequestPath).s).name>>,
                   <<MappingOf(RequestParts(content))>>)

\* a raw value in front of a decoded sourceBuilder
C14_Witness ==
  /\ Formatted("explain_legacy")
  /\ DescriptorShape(content)
  /\ Len(RequestParts(content)) = 2
  /\ PartKey(RequestParts(content)[1]) = <<"a">>
  /\ PartKey(RequestParts(content)[2]) = K_sourceBuilder
  /\ At(ret.s, RequestPath).items[1].items[1] = Str(<<"1">>)
  /\ At(ret.s, RequestPath).items[1].items[2].tag = "dict"


(***************************************************************************)
(* Further claims about parse_plan_tree.                                   *)
(***************************************************************************)
PlanCalled == pc # "idle" /\ fn = "parse_plan_tree"

\* the lines of a plan text, each trimmed
PlanLines(s) == StripEach(SplitOn(s, "\n"))

\* C21: the mapping has an entry for a line if and only if the trimmed line is
\* Name(Params) from its first to its last character; blank lines and lines of
\* any other shape give no entry and no exception, and the value of an entry
\* is parse_parameters(Params) of the line (the last one of that Name).
C21_EntryIffLineMatches ==
  PlanCalled =>
    LET lines == PlanLines(content)
        shaped == {i \in 1..Len(lines) : IsCallShaped(lines[i])}
    IN  /\ pc = "returned"
        /\ ret.tag = "dict"
        /\ \A i \in shaped : HasKey(ret, CallName(lines[i]))
        /\ \A k \in 1..Len(ret.keys) :
             \E i \in shaped : CallName(lines[i]) = ret.keys[k]
        /\ \A k1, k2 \in 1..Len(ret.keys) : ret.keys[k1] = ret.keys[k2] => k1 = k2
        /\ \A i \in shaped :
             (\A j \in shaped : j > i => CallName(lines[j]) # CallName(lines[i]))
               => DictGet(ret, CallName(lines[i]))
                    = parse_parameters(CallInterior(lines[i]))

\* an operator line, a blank line and a line of another shape that starts
\* like an operator line
C21_Witness ==
  /\ PlanCalled
  /\ LET lines == PlanLines(content)
     IN  /\ \E i \in 2..(Len(lines) - 1) :
              lines[i] = <<>> /\ lines[i - 1] # <<>> /\ lines[i + 1] # <<>>
         /\ \E i \in 1..Len(lines) :
              /\ lines[i] # <<>>
              /\ ~IsCallShaped(lines[i])
              /\ HasChar(lines[i], "(")
         /\ \E i \in 1..Len(lines) : IsCallShaped(lines[i])
  /\ Len(ret.keys) = 1


(***************************************************************************)
(* Claims about execute_query.                                             *)
(***************************************************************************)
QueryDone == pc # "idle" /\ fn = "execute_query"

\* the text decodes to an object that has the key at its top level
HasTopLevelKey(text, key) ==
  /\ JsonLoads(text).ok
  /\ JsonLoads(text).v.tag = "dict"
  /\ HasKey(JsonLoads(text).v, key)

Invoked(callee) == \E i \in 1..Len(calls) : calls[i].callee = callee

\* C22: for an explain query whose response is no error, explain_calcite is
\* invoked exactly when the decoded envelope has a top-level "calcite" key, and
\* explain_legacy exactly when it has a top-level "root" key and no "calcite"
\* key; a legacy envelope with the text calcite inside a value goes to
\* explain_legacy.
C22_SelectsByTopLevelKey ==
  (QueryDone /\ args.is_explain /\ ~IsErrorResponse(content))
    => /\ Invoked("explain_calcite") <=> HasTopLevelKey(content, K_calcite)
       /\ Invoked("explain_legacy")
            <=> (HasTopLevelKey(content, K_root) /\ ~HasTopLevelKey(content, K_calcite))

\* C23: whatever the response and the flags, query_executor is called once and
\* a tuple of three is returned whose second element is the response; for a
\* response that starts with 'Invalid query' or 'queryExecution Error' the
\* first element is False, 'Result:' is not printed and no formatter is
\* invoked.
C23_OneCallAndTriple ==
  QueryDone
    => /\ Cardinality({i \in 1..Len(calls) : calls[i].callee = "query_executor"}) = 1
       /\ pc = "returned"
       /\ ret.tag = "tuple"
       /\ Len(ret.items) = 3
       /\ ret.items[2] = Str(content)
       /\ IsErrorResponse(content)
            => /\ ret.items[1] = PyFalse
               /\ \A i \in 1..Len(printed) : printed[i].template # "Result:\n"
               /\ Len(calls) = 1


(***************************************************************************)
(* Termination.                                                            *)
(***************************************************************************)
\* an iteration that stays in the loop moves the index forward
ScanAdvances == (pc = "loop" /\ pc' = "loop") => locals'.i > locals.i

ArgumentLen(call) == Len(call.arguments[1].s)

\* the calls the running call has made are the new head of calls: each has an
\* argument shorter than the argument of the call that made it
CallsShrink ==
  (pc = "running" /\ pc' = "running")
    => \A n \in 1..(Len(calls') - Len(calls) + 1) :
         /\ calls'[n].callee \in {"parse_parameter_value", "parse_parameters"}
         /\ ArgumentLen(calls'[n]) < ArgumentLen(calls[1])

\* C24: every call of the scanner and of the four parsers returns; every
\* iteration of the scanner loop, one at a split point included, increases the
\* index, and every call of parse_parameter_value or parse_parameters made by a
\* parser has a strictly shorter argument than the call that makes it.
C24_EveryCallTerminates ==
  /\ [][ScanAdvances /\ CallsShrink]_position
  /\ <>(pc = "returned")

\* parse_parameters is about to run for the second time, on the parameter
\* list of a call-shaped value of the list it was called on
C24_Witness ==
  /\ pc = "running"
  /\ fn = "parse_parameters"
  /\ calls # <<>>
  /\ calls[1].callee = "parse_parameters"
  /\ ArgumentLen(calls[1]) > 0
  /\ ArgumentLen(calls[1]) < Len(content)

(***************************************************************************)
(* Further claims about explain_legacy.                                    *)
(***************************************************************************)
\* an identifier followed by '=' begins at index i of text
IdentifierEqAt(text, i) ==
  \E n \in i..(Len(text) - 1) :
    /\ \A j \in i..n : text[j] \in WordChars
    /\ text[n + 1] = "="

\* the commas directly in front of identifier=
CommaSeparators(inner) ==
  {i \in 1..Len(inner) : inner[i] = "," /\ IdentifierEqAt(inner, i + 1)}

\* the commas in front of one space and identifier=
CommaSpaceSeparators(inner) ==
  {i \in 1..(Len(inner) - 1) :
     inner[i] = "," /\ inner[i + 1] = " " /\ IdentifierEqAt(inner, i + 2)}

\* inner without the width characters at each index of S, in pieces
CutAt(inner, S, width) ==
  LET at == Ascending(S)
  IN  [k \in 1..(Len(at) + 1) |->
         SubSeq(inner,
                IF k = 1 THEN 1 ELSE at[k - 1] + width,
                IF k > Len(at) THEN Len(inner) ELSE at[k] - 1)]

\* a part the loop cannot store: no '=', or a sourceBuilder that is not JSON
PartFails(part) ==
  \/ ~IsKeyValue(part)
  \/ PartKey(part) = K_sourceBuilder /\ ~JsonLoads(PartValue(part)).ok

\* what the descriptor Name(inner) comes to when inner is cut into parts
OutcomeOf(name, parts) ==
  LET failing == {i \in 1..Len(parts) : PartFails(parts[i])}
  IN  IF failing = {} THEN Dict(<<name>>, <<MappingOf(parts)>>)
      ELSE IF ~IsKeyValue(parts[MinOf(failing)]) THEN Raise("ValueError")
      ELSE Raise("JSONDecodeError")

\* explain_legacy ended as the parts say: with their mapping in the place of
\* the descriptor, or with the exception of the first part that fails
EndedAs(outcome) ==
  IF IsExc(outcome) THEN pc = "raised" /\ ret = outcome
  ELSE pc = "returned" /\ At(ret.s, RequestPath) = outcome

LegacyInner(text) == RequestMatch(At(text, RequestPath).s).params

LegacyName(text) == RequestMatch(At(text, RequestPath).s).name

\* explain_legacy has run on an envelope whose descriptor is Name(inner)
LegacySplit ==
  /\ Explained("explain_legacy")
  /\ HasShape(content, FieldsPath, RequestPath)
  /\ RequestMatch(At(content, RequestPath).s).matched

EntriesOf(s) == [i \in 1..Len(TopParts(s)) |-> EntryOf(TopParts(s)[i])]

\* the parts that are the first with their key, in source order
FirstWithKey(E) ==
  Ascending({i \in 1..Len(E) : \A j \in 1..(i - 1) : E[j].key # E[i].key})

\* the last part with the key of part i
LastWithKey(E, i) == MaxOf({j \in 1..Len(E) : E[j].key = E[i].key})

\* C26: parse_parameters returns a mapping with one entry per distinct key,
\* in the order of the first top-level part with each key and with the value
\* of the last top-level part with that key; it never has more entries than
\* there are top-level parts.
C26_FirstPositionLastValue ==
  Params =>
    LET E     == EntriesOf(content)
        first == FirstWithKey(E)
    IN  /\ ret.tag = "dict"
        /\ ret.keys = [n \in 1..Len(first) |-> E[first[n]].key]
        /\ ret.items = [n \in 1..Len(first) |-> E[LastWithKey(E, first[n])].value]
        /\ Len(ret.keys) <= Len(TopParts(content))

\* a=1,b,a=[2]: the key a stays in front of b and holds the later value
C26_Witness ==
  /\ Params
  /\ Len(TopParts(content)) = 3
  /\ ret.keys = <<<<"a">>, <<"b">>>>
  /\ ret.items[1] # Str(<<"1">>)
  /\ ret.items[2] = PyTrue

(***************************************************************************)
(* Further claims about explain_calcite.                                   *)
(***************************************************************************)
\* explain_calcite has returned for the second time
Twice == Formatted("explain_calcite") /\ locals # <<>>

\* the two envelopes hold the same text at the path: then the two outputs
\* hold the same value there
SameStage(path) ==
  At(locals.envelope, path) = At(content, path)
    => At(locals.output.s, path) = At(ret.s, path)

\* C27: the value explain_calcite puts at calcite.logical depends on the
\* logical text alone, not on the physical text and not on an earlier call,
\* and likewise the value at calcite.physical; two calls on the same envelope
\* return the same output.
C27_StagesIndependent ==
  Twice
    => /\ SameStage(LogicalPath)
       /\ SameStage(PhysicalPath)
       /\ locals.envelope = content => locals.output = ret

\* two envelopes with the logical text A(a=1) and different physical texts:
\* the outputs differ and hold the same logical tree
C27_Witness ==
  /\ Twice
  /\ At(content, LogicalPath) = Str(<<"A", "(", "a", "=", "1", ")", "\n">>)
  /\ At(locals.envelope, LogicalPath) = At(content, LogicalPath)
  /\ At(locals.envelope, PhysicalPath) # At(content, PhysicalPath)
  /\ locals.output # ret
  /\ At(ret.s, LogicalPath).keys = <<<<"A">>>>

(***************************************************************************)
(* The locator against the splitter.                                       *)
(***************************************************************************)
\* content[:i].strip() as the elements it makes: none when it is blank
ElementOf(prefix) == IF Strip(prefix) = <<>> THEN <<>> ELSE <<Strip(prefix)>>

\* the splitter's result for a content on which the locator returns i
SplitAsLocated(s, c, i) ==
  IF i = -1 THEN ElementOf(s)
  ELSE ElementOf(SubSeq(s, 1, i))
         \o split_respecting_nesting(SubSeq(s, i + 2, Len(s)), c)

\* C28: on every content and target character c, when the locator returns -1
\* the splitter returns at most one element, the trimmed content; when the
\* locator returns i >= 0, content[i] is c and the splitter returns the
\* trimmed content[:i], left out when blank, followed by the split of
\* content[i+1:].
C28_LocatorAgreesWithSplitter ==
  /\ Find => \/ ret = -1
             \/ ret \in 0..(Len(content) - 1) /\ content[ret + 1] = target
  /\ Split => ret = SplitAsLocated(content, target,
                                   find_first_unescaped_char(content, target))

\* the splitter has cut a content at the index the locator returns, behind a
\* bracketed occurrence of the target
C28_Witness ==
  /\ Split
  /\ find_first_unescaped_char(content, target) > FindChar(content, target)
  /\ find_first_unescaped_char(content, target) = Len(content) - 1
  /\ content[1] = "["
  /\ ret = <<SubSeq(content, 1, Len(content) - 1)>>

(***************************************************************************)
(* Further claims about parse_arrow_structure.                             *)
(***************************************************************************)
\* a string of the source text as it stands: trimmed, not empty
RawElement(v, s) ==
  /\ v.tag = "str"
  /\ v.s # <<>>
  /\ Strip(v.s) = v.s
  /\ Contains(s, v.s)

\* C29: a mapping returned by parse_arrow_structure has exactly one key, which
\* ends in "->", and its value is a string or a list of non-empty trimmed
\* strings taken from the content as they stand: an element that holds an
\* arrow, an array or a key=value call is not parsed.
C29_OneArrowKeyRawValue ==
  (ArrowParsed /\ ret.tag = "dict")
    => /\ Len(ret.keys) = 1
       /\ EndsWith(ret.keys[1], ">")
       /\ Len(ret.keys[1]) >= 2
       /\ ret.keys[1][Len(ret.keys[1]) - 1] = "-"
       /\ \/ ret.items[1].tag = "str"
          \/ /\ ret.items[1].tag = "list"
             /\ \A i \in 1..Len(ret.items[1].items) :
                  RawElement(ret.items[1].items[i], content)

\* P->[[a, a]]: the element [a, a] stays text
C29_Witness ==
  /\ ArrowParsed
  /\ ret.tag = "dict"
  /\ ret.keys = <<<<"P", "-", ">">>>>
  /\ ret.items[1] = StrList(<<<<"[", "a", ",", " ", "a", "]">>>>)

(***************************************************************************)
(* parse_plan_tree and the layout of the plan text.                        *)
(***************************************************************************)
RECURSIVE WithoutLeading(_), WithoutTrailing(_)
WithoutLeading(line) ==
  IF line # <<>> /\ Head(line) \in Whitespace THEN WithoutLeading(Tail(line))
  ELSE line

WithoutTrailing(line) ==
  IF line # <<>> /\ line[Len(line)] \in Whitespace
    THEN WithoutTrailing(SubSeq(line, 1, Len(line) - 1))
  ELSE line

NotEmpty(line) == line # <<>>

\* the lines of a plan text without the whitespace around them, blank lines
\* left out
TrimmedNonBlankLines(s) ==
  LET lines == SplitOn(s, "\n")
  IN  SelectSeq([i \in 1..Len(lines) |-> WithoutTrailing(WithoutLeading(lines[i]))],
                NotEmpty)

\* the plan text that is nothing but those lines
Flush(s) == Join(TrimmedNonBlankLines(s), "\n")

\* C30: parse_plan_tree returns for a plan text what it returns for the text
\* of its trimmed non-blank lines alone; two texts with the same trimmed
\* non-blank lines have that text in common, so they give the same mapping,
\* whatever their indentation and blank lines are.
C30_LayoutIgnored ==
  PlanCalled => pc = "returned" /\ ret = parse_plan_tree(Flush(content))

\* the fixture's logical plan, whose second operator is indented under the
\* first: two entries side by side
C30_Witness ==
  /\ PlanCalled
  /\ content = MockCalciteLogical
  /\ Flush(content) # content
  /\ Len(TrimmedNonBlankLines(content)) = 2
  /\ Len(ret.keys) = 2
  /\ \A k \in 1..2 : ret.items[k].tag = "dict"

====
